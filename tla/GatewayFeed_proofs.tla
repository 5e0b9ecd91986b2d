------------------------- MODULE GatewayFeed_proofs -------------------------
(***************************************************************************)
(* The Binance gateway: what the interface shows of the account            *)
(* (GatewayFeed), for any number of orders, assets, streams and readings,  *)
(* and queues of any length; and what is left running of the gateways that *)
(* bring it (Gateway), for any number of them and of requests.             *)
(***************************************************************************)
EXTENDS Integers, GatewayFeed, Gateway, SequenceTheorems, TLAPS

Report == [item : Reported, value : Values]

\* The n-th report of s is the last one of its item, and what a queue of reports
\* must be: the last report of an item carries what the item is in f.
LastIn(s, n) == \A m \in 1 .. Len(s) : m > n => s[m].item # s[n].item
SoundQueue(s, f) == \A n \in 1 .. Len(s) : LastIn(s, n) => s[n].value = f[s[n].item]
ItemsOf(s) == {s[n].item : n \in 1 .. Len(s)}

QueuesSound == \A g \in Streams : SoundQueue(queue[g], real)
ReadsSound == \A r \in Readers : \A i \in reads[r].items :
    i \in reads[r].since \/ reads[r].answer[i] = Listed(real[i])
SavedSound == \A i \in Items : saved[i] = Listed(real[i]) \/ i \in behind

FeedInv == TypeOK /\ QueuesSound /\ ReadsSound /\ SavedSound /\ ShownUnlessAstray

-----------------------------------------------------------------------------
(* Queues of reports *)

LEMMA PartsApart ==
  /\ Reported \subseteq Items /\ Spots \subseteq Items /\ Margins \subseteq Items
  /\ Orders \subseteq Items /\ Parts = Spots \cup Margins
  /\ Reported \cap Margins = {} /\ Spots \cap Margins = {}
  /\ Items = Reported \cup Margins
<1>1. Spots \cap Margins = {}
  BY DEF Spots, Margins
<1> QED BY <1>1, FeedAssumption DEF FeedAssumption, Reported, Items, Parts

\* A queue that has no report of i stays sound when i changes.
LEMMA Unreported ==
  ASSUME NEW s \in Seq(Report), NEW f \in [Items -> Values], SoundQueue(s, f),
         NEW i \in Margins, NEW v
  PROVE  SoundQueue(s, [f EXCEPT ![i] = v])
<1> SUFFICES ASSUME NEW n \in 1 .. Len(s), LastIn(s, n)
             PROVE  s[n].value = [f EXCEPT ![i] = v][s[n].item]
  BY DEF SoundQueue
<1>1. s[n] \in Report
  BY ElementOfSeq
<1>2. s[n].item \in Items /\ s[n].item # i
  BY <1>1, PartsApart DEF Report
<1>3. s[n].value = f[s[n].item]
  BY DEF SoundQueue
<1> QED BY <1>2, <1>3

\* The queue that gets a report of i stays sound when i becomes what it says.
LEMMA Appended ==
  ASSUME NEW s \in Seq(Report), NEW f \in [Items -> Values], SoundQueue(s, f),
         NEW i \in Reported, NEW v \in Values
  PROVE  LET t == Append(s, [item |-> i, value |-> v]) IN
         /\ t \in Seq(Report)
         /\ SoundQueue(t, [f EXCEPT ![i] = v])
         /\ ItemsOf(t) = ItemsOf(s) \cup {i}
<1> DEFINE e == [item |-> i, value |-> v]
           t == Append(s, e)
           h == [f EXCEPT ![i] = v]
<1>1. e \in Report /\ e.item = i /\ e.value = v
  BY DEF Report
<1>2. /\ t \in Seq(Report) /\ Len(t) = Len(s) + 1 /\ Len(s) \in Nat
      /\ \A n \in 1 .. Len(s) : t[n] = s[n]
      /\ t[Len(s) + 1] = e
  BY <1>1, AppendProperties, LenProperties
<1>3. SoundQueue(t, h)
  <2> SUFFICES ASSUME NEW n \in 1 .. Len(t), LastIn(t, n)
               PROVE  t[n].value = h[t[n].item]
    BY DEF SoundQueue
  <2>1. CASE n = Len(s) + 1
    BY <2>1, <1>1, <1>2, PartsApart
  <2>2. CASE n \in 1 .. Len(s)
    <3>1. t[n] = s[n] /\ s[n] \in Report
      BY <2>2, <1>2, ElementOfSeq
    <3>2. s[n].item # i
      BY <2>2, <3>1, <1>1, <1>2 DEF LastIn
    <3>3. LastIn(s, n)
      BY <2>2, <1>2 DEF LastIn
    <3>4. s[n].value = f[s[n].item]
      BY <2>2, <3>3 DEF SoundQueue
    <3> QED BY <3>1, <3>2, <3>4, PartsApart DEF Report
  <2> QED BY <2>1, <2>2, <1>2
<1>4. ItemsOf(t) = ItemsOf(s) \cup {i}
  <2>1. 1 .. Len(t) = 1 .. Len(s) \cup {Len(s) + 1}
    BY <1>2
  <2> QED BY <2>1, <1>1, <1>2 DEF ItemsOf
<1> QED BY <1>2, <1>3, <1>4

\* The queue that has brought its first report stays sound; that report is the
\* truth unless another one of its item follows.
LEMMA Brought ==
  ASSUME NEW s \in Seq(Report), NEW f \in [Items -> Values], SoundQueue(s, f), s # <<>>
  PROVE  /\ Tail(s) \in Seq(Report) /\ SoundQueue(Tail(s), f)
         /\ Head(s) \in Report
         /\ ItemsOf(s) \subseteq ItemsOf(Tail(s)) \cup {Head(s).item}
         /\ \/ /\ \E n \in 2 .. Len(s) : s[n].item = Head(s).item
               /\ Head(s).item \in ItemsOf(Tail(s))
            \/ /\ ~\E n \in 2 .. Len(s) : s[n].item = Head(s).item
               /\ Head(s).value = f[Head(s).item]
<1> DEFINE t == Tail(s)
<1>1. /\ Head(s) \in Report /\ t \in Seq(Report)
      /\ Len(t) = Len(s) - 1 /\ Len(s) \in Nat \ {0}
      /\ \A n \in 1 .. Len(t) : t[n] = s[n + 1]
      /\ Head(s) = s[1]
  BY HeadTailProperties, EmptySeq, LenProperties
<1>2. SoundQueue(t, f)
  <2> SUFFICES ASSUME NEW n \in 1 .. Len(t), LastIn(t, n)
               PROVE  t[n].value = f[t[n].item]
    BY DEF SoundQueue
  <2>1. n + 1 \in 1 .. Len(s) /\ t[n] = s[n + 1]
    BY <1>1
  <2>2. LastIn(s, n + 1)
    <3> SUFFICES ASSUME NEW m \in 1 .. Len(s), m > n + 1
                 PROVE  s[m].item # s[n + 1].item
      BY DEF LastIn
    <3>1. m - 1 \in 1 .. Len(t) /\ m - 1 > n /\ t[m - 1] = s[m]
      BY <1>1
    <3> QED BY <3>1, <2>1 DEF LastIn
  <2> QED BY <2>1, <2>2 DEF SoundQueue
<1>3. \A n \in 2 .. Len(s) : n - 1 \in 1 .. Len(t) /\ t[n - 1] = s[n]
  BY <1>1
<1>4. ItemsOf(s) \subseteq ItemsOf(t) \cup {Head(s).item}
  <2> SUFFICES ASSUME NEW n \in 1 .. Len(s)
               PROVE  s[n].item \in ItemsOf(t) \cup {Head(s).item}
    BY DEF ItemsOf
  <2>1. CASE n = 1
    BY <2>1, <1>1
  <2>2. CASE n \in 2 .. Len(s)
    BY <2>2, <1>3 DEF ItemsOf
  <2> QED BY <2>1, <2>2, <1>1
<1>5. CASE \E n \in 2 .. Len(s) : s[n].item = Head(s).item
  <2>1. PICK n \in 2 .. Len(s) : s[n].item = Head(s).item
    BY <1>5
  <2>2. Head(s).item \in ItemsOf(t)
    BY <2>1, <1>3 DEF ItemsOf
  <2> QED BY <1>1, <1>2, <1>4, <1>5, <2>2
<1>6. CASE ~\E n \in 2 .. Len(s) : s[n].item = Head(s).item
  <2>1. LastIn(s, 1)
    BY <1>1, <1>6 DEF LastIn
  <2>2. Head(s).value = f[Head(s).item]
    BY <2>1, <1>1 DEF SoundQueue
  <2> QED BY <1>1, <1>2, <1>4, <1>6, <2>2
<1> QED BY <1>5, <1>6

LEMMA PendingItems ==
  ASSUME TypeOK, NEW g \in Streams
  PROVE  /\ Pending(g) = ItemsOf(queue[g]) /\ Pending(g) \subseteq Items
         /\ queue[g] \in Seq(Report)
<1>1. queue[g] \in Seq(Report)
  BY DEF TypeOK, Report
<1>2. DOMAIN queue[g] = 1 .. Len(queue[g])
  BY <1>1, LenProperties
<1>3. \A n \in 1 .. Len(queue[g]) : queue[g][n].item \in Reported
  <2>1. \A n \in 1 .. Len(queue[g]) : queue[g][n] \in Report
    BY <1>1, ElementOfSeq
  <2> QED BY <2>1 DEF Report
<1>4. Pending(g) = ItemsOf(queue[g])
  BY <1>2, Zenon DEF Pending, ItemsOf
<1>5. ItemsOf(queue[g]) \subseteq Items
  BY <1>3, PartsApart DEF ItemsOf
<1> QED BY <1>1, <1>4, <1>5

LEMMA ValuesListed ==
  ASSUME NEW v \in Values
  PROVE  Listed(v) \in Values
BY DEF Listed, Values

\* What is listed as nothing, and not hidden so, is nothing.
LEMMA NothingHidden ==
  ASSUME NEW S, NEW i \in S, i \notin Hidden(S)
  PROVE  Listed(real[i]) = "none"
BY DEF Hidden, Listed

LEMMA NothingRead ==
  NoRead \in Reading /\ NoRead.items = {} /\ DOMAIN NoRead.answer = NoRead.items
<1>1. [i \in {} |-> "none"] \in [{} -> Values]
  OBVIOUS
<1> QED BY <1>1 DEF NoRead, Reading

-----------------------------------------------------------------------------
(* The invariant *)

LEMMA FeedInit == Init => FeedInv
<1> SUFFICES ASSUME Init PROVE FeedInv
  OBVIOUS
<1>1. NoRead \in Reading /\ DOMAIN NoRead.answer = NoRead.items
  BY NothingRead
<1>2. <<>> \in Seq([item : Reported, value : Values]) /\ Len(<<>>) = 0
  BY EmptySeq
<1>3. TypeOK
  BY <1>1, <1>2 DEF Init, TypeOK, Values
<1>4. QueuesSound
  BY <1>2 DEF Init, QueuesSound, SoundQueue
<1>5. ReadsSound
  BY DEF Init, ReadsSound, NoRead
<1>6. SavedSound /\ ShownUnlessAstray
  BY DEF Init, SavedSound, ShownUnlessAstray, Listed
<1> QED BY <1>3, <1>4, <1>5, <1>6 DEF FeedInv

\* Every step keeps it.
LEMMA FeedNext == FeedInv /\ [Next]_vars => FeedInv'
<1> SUFFICES ASSUME FeedInv, [Next]_vars PROVE FeedInv'
  OBVIOUS
<1> USE DEF FeedInv
<1>t. /\ real \in [Items -> Values] /\ shown \in [Items -> Values] /\ saved \in [Items -> Values]
      /\ queue \in [Streams -> Seq(Report)] /\ reads \in [Readers -> Reading]
      /\ hearing \subseteq Streams /\ astray \subseteq Items /\ behind \subseteq Items
  BY DEF TypeOK, Report
<1>p. \A g \in Streams : Pending(g) = ItemsOf(queue[g]) /\ Pending(g) \subseteq Items
  BY PendingItems
<1>q. (\A g \in Streams : queue'[g] \in Seq(Report))
        => \A g \in Streams : Pending(g)' = ItemsOf(queue'[g])
  <2> SUFFICES ASSUME NEW g \in Streams, queue'[g] \in Seq(Report)
               PROVE  Pending(g)' = ItemsOf(queue'[g])
    OBVIOUS
  <2>1. DOMAIN queue'[g] = 1 .. Len(queue'[g])
    BY LenProperties
  <2> QED BY <2>1, Zenon DEF Pending, ItemsOf
<1>u. queue' = queue => Queued' = Queued
  BY DEF Queued, Pending
<1>l. \A v \in Values : Listed(v) \in Values
  BY ValuesListed
<1>1. ASSUME NEW i \in Items, Change(i) PROVE FeedInv'
  <2>1. PICK v \in Changes(i) :
          /\ real' = [real EXCEPT ![i] = v]
          /\ queue' = [g \in Streams |->
                IF g \in Told(i) THEN Append(queue[g], [item |-> i, value |-> v]) ELSE queue[g]]
    BY <1>1 DEF Change
  <2>2. v \in Values
    BY DEF Changes, Values
  <2>h. Told(i) \subseteq hearing /\ (Told(i) # {} => i \in Reported /\ Told(i) = hearing)
    BY DEF Told
  <2>3. \A g \in Told(i) :
          /\ queue'[g] \in Seq(Report) /\ SoundQueue(queue'[g], real')
          /\ ItemsOf(queue'[g]) = ItemsOf(queue[g]) \cup {i}
    BY <1>t, <2>1, <2>2, <2>h, Appended DEF QueuesSound
  <2>4. \A g \in Streams \ Told(i) : queue'[g] = queue[g]
    BY <2>1
  <2>e. \A g \in Streams \ hearing : queue'[g] = <<>>
    BY <2>4, <2>h DEF TypeOK
  <2>5. \A g \in Streams : queue'[g] \in Seq(Report)
    BY <2>3, <2>4, <1>t
  <2>6. QueuesSound'
    <3>1. ASSUME NEW g \in Streams \ hearing PROVE SoundQueue(queue'[g], real')
      BY <2>e, EmptySeq DEF SoundQueue
    <3>2. ASSUME NEW g \in hearing \ Told(i) PROVE SoundQueue(queue'[g], real')
      <4>1. i \in Margins /\ queue'[g] = queue[g]
        BY <2>4, <3>2, <1>t, PartsApart DEF Told
      <4> QED BY <4>1, <2>1, <1>t, <3>2, Unreported DEF QueuesSound
    <3> QED BY <2>3, <3>1, <3>2, <1>t DEF QueuesSound
  <2>7. TypeOK'
    <3>1. reads' \in [Readers -> Reading] /\ \A r \in Readers : DOMAIN reads'[r].answer = reads'[r].items
      <4> DEFINE next(r) == IF i \in reads[r].items THEN [reads[r] EXCEPT !.since = @ \cup {i}]
                            ELSE reads[r]
      <4>1. \A r \in Readers : next(r) \in Reading /\ DOMAIN next(r).answer = next(r).items
        <5> SUFFICES ASSUME NEW r \in Readers
                     PROVE  next(r) \in Reading /\ DOMAIN next(r).answer = next(r).items
          OBVIOUS
        <5>1. reads[r] \in Reading /\ DOMAIN reads[r].answer = reads[r].items
          BY <1>t DEF TypeOK
        <5>2. CASE i \notin reads[r].items
          BY <5>1, <5>2
        <5>3. CASE i \in reads[r].items
          BY <5>1, <5>3 DEF Reading
        <5> QED BY <5>2, <5>3
      <4>2. reads' = [r \in Readers |-> next(r)]
        BY <1>1 DEF Change
      <4> HIDE DEF next
      <4> QED BY <4>1, <4>2
    <3>2. queue' \in [Streams -> Seq(Report)]
      BY <2>1, <2>5
    <3> QED BY <1>1, <1>t, <2>1, <2>2, <2>e, <3>1, <3>2 DEF Change, TypeOK, Report
  <2>8. ReadsSound'
    BY <1>1, <1>t, <2>1 DEF Change, ReadsSound, Reading
  <2>9. SavedSound'
    BY <1>1, <1>t, <2>1 DEF Change, SavedSound
  <2>10. ShownUnlessAstray'
    <3> SUFFICES ASSUME NEW j \in Items
                 PROVE  shown'[j] = Listed(real'[j]) \/ j \in astray' \/ j \in Queued'
      BY DEF ShownUnlessAstray
    <3>1. CASE j = i /\ Told(i) = {}
      BY <3>1, <1>1 DEF Change
    <3>2. CASE j = i /\ Told(i) # {}
      <4>1. PICK g \in Told(i) : i \in ItemsOf(queue'[g])
        BY <3>2, <2>3
      <4> QED BY <4>1, <3>2, <2>5, <2>h, <1>q, <1>t DEF Queued
    <3>3. CASE j # i
      <4>1. real'[j] = real[j] /\ shown' = shown /\ astray \subseteq astray'
        BY <3>3, <1>1, <1>t, <2>1 DEF Change
      <4>2. j \in Queued => j \in Queued'
        <5> SUFFICES ASSUME NEW g \in Streams, j \in Pending(g) PROVE j \in Pending(g)'
          BY DEF Queued
        <5>1. j \in ItemsOf(queue[g]) /\ Pending(g)' = ItemsOf(queue'[g])
          BY <1>p, <1>q, <2>5
        <5>2. CASE g \in Told(i)
          BY <5>1, <5>2, <2>3
        <5>3. CASE g \notin Told(i)
          BY <5>1, <5>3, <2>4
        <5> QED BY <5>2, <5>3
      <4> QED BY <4>1, <4>2 DEF ShownUnlessAstray
    <3> QED BY <3>1, <3>2, <3>3
  <2> QED BY <2>6, <2>7, <2>8, <2>9, <2>10
<1>2. ASSUME NEW g \in Streams, StreamConnects(g) PROVE FeedInv'
  <2>1. hearing' = hearing \cup {g} /\ UNCHANGED <<real, shown, queue, reads, saved, behind, astray>>
    BY <1>2 DEF StreamConnects, snapshot
  <2>2. TypeOK'
    BY <2>1 DEF TypeOK
  <2>3. QueuesSound' /\ ReadsSound' /\ SavedSound'
    BY <2>1 DEF QueuesSound, ReadsSound, SavedSound
  <2>4. ShownUnlessAstray'
    BY <2>1, <1>u DEF ShownUnlessAstray
  <2> QED BY <2>2, <2>3, <2>4
<1>3. ASSUME NEW g \in Streams, StreamDrops(g) PROVE FeedInv'
  <2>1. \A x \in Streams : queue'[x] = IF x = g THEN <<>> ELSE queue[x]
    BY <1>3, <1>t DEF StreamDrops
  <2>2. <<>> \in Seq(Report) /\ SoundQueue(<<>>, real)
    BY EmptySeq DEF SoundQueue
  <2>3. \A x \in Streams : queue'[x] \in Seq(Report)
    BY <2>1, <2>2, <1>t
  <2>4. TypeOK'
    <3>1. queue' \in [Streams -> Seq(Report)]
      BY <1>3, <1>t, <2>2 DEF StreamDrops
    <3> QED BY <1>3, <1>p, <2>1, <3>1 DEF StreamDrops, snapshot, TypeOK, Report
  <2>5. QueuesSound'
    BY <1>3, <2>1, <2>2 DEF StreamDrops, QueuesSound
  <2>6. ReadsSound' /\ SavedSound'
    BY <1>3 DEF StreamDrops, snapshot, ReadsSound, SavedSound
  <2>7. ShownUnlessAstray'
    <3>1. \A j \in Queued : j \in Pending(g) \/ j \in Queued'
      BY <2>1, <2>3, <1>p, <1>q DEF Queued
    <3> QED BY <3>1, <1>3 DEF StreamDrops, ShownUnlessAstray
  <2> QED BY <2>4, <2>5, <2>6, <2>7
<1>4. ASSUME NEW g \in Streams, OnUserData(g) PROVE FeedInv'
  <2> DEFINE e == Head(queue[g])
             more == \E n \in 2 .. Len(queue[g]) : queue[g][n].item = e.item
  <2>1. /\ queue[g] # <<>> /\ shown' = Applied(e)
        /\ astray' = (IF more THEN astray ELSE astray \ {e.item}) \cup Hidden(Covered(e))
        /\ queue' = [queue EXCEPT ![g] = Tail(@)]
        /\ UNCHANGED <<real, hearing, reads, saved, behind>>
    BY <1>4 DEF OnUserData, snapshot
  <2>2. /\ Tail(queue[g]) \in Seq(Report) /\ SoundQueue(Tail(queue[g]), real)
        /\ e \in Report
        /\ ItemsOf(queue[g]) \subseteq ItemsOf(Tail(queue[g])) \cup {e.item}
        /\ \/ more /\ e.item \in ItemsOf(Tail(queue[g]))
           \/ ~more /\ e.value = real[e.item]
    BY <1>t, <2>1, Brought DEF QueuesSound
  <2>3. \A x \in Streams : queue'[x] = IF x = g THEN Tail(queue[g]) ELSE queue[x]
    BY <1>t, <2>1
  <2>4. \A x \in Streams : queue'[x] \in Seq(Report)
    BY <1>t, <2>2, <2>3
  <2>5. /\ e.item \in Items /\ e.item \notin Margins /\ e.value \in Values /\ g \in hearing
        /\ Covered(e) \subseteq Margins /\ Hidden(Covered(e)) \subseteq Margins
    BY <2>1, <2>2, PartsApart DEF Report, TypeOK, Covered, Hidden
  <2> HIDE DEF e
  <2>6. shown' = [i \in Items |-> IF i = e.item THEN Listed(e.value)
                                  ELSE IF i \in Covered(e) THEN "none" ELSE shown[i]]
    BY <2>1 DEF Applied
  <2>7. TypeOK'
    <3>1. queue' \in [Streams -> Seq(Report)]
      BY <1>t, <2>1, <2>2
    <3>2. shown' \in [Items -> Values]
      BY <1>t, <1>l, <2>5, <2>6 DEF Values
    <3>4. astray' \subseteq Items
      BY <1>t, <2>1, <2>5, PartsApart
    <3>3. \A x \in Streams \ hearing' : queue'[x] = <<>>
      BY <2>1, <2>3, <2>5 DEF TypeOK
    <3> QED BY <2>1, <3>1, <3>2, <3>3, <3>4 DEF TypeOK, Report
  <2>8. QueuesSound'
    BY <2>1, <2>2, <2>3 DEF QueuesSound
  <2>9. ReadsSound' /\ SavedSound'
    BY <2>1 DEF ReadsSound, SavedSound
  <2>10. ShownUnlessAstray'
    <3> SUFFICES ASSUME NEW j \in Items
                 PROVE  shown'[j] = Listed(real[j]) \/ j \in astray' \/ j \in Queued'
      BY <2>1 DEF ShownUnlessAstray
    <3>1. \A k \in ItemsOf(Tail(queue[g])) : k \in Queued'
      BY <2>3, <2>4, <1>q DEF Queued
    <3>2. CASE j = e.item
      <4>1. CASE more
        BY <4>1, <3>1, <3>2, <2>2
      <4>2. CASE ~more
        BY <4>2, <3>2, <2>2, <2>6, <1>t
      <4> QED BY <4>1, <4>2
    <3>4. CASE j \in Covered(e)
      <4>1. shown'[j] = "none" /\ (j \in Hidden(Covered(e)) => j \in astray')
        BY <3>4, <2>1, <2>5, <2>6
      <4> QED BY <4>1, <3>4, NothingHidden
    <3>3. CASE j # e.item /\ j \notin Covered(e)
      <4>1. shown'[j] = shown[j] /\ (j \in astray => j \in astray')
        BY <3>3, <2>1, <2>6, <1>t
      <4>2. j \in Queued => j \in Queued'
        <5> SUFFICES ASSUME NEW x \in Streams, j \in Pending(x) PROVE j \in Queued'
          BY DEF Queued
        <5>1. CASE x = g
          BY <5>1, <3>1, <3>3, <2>2, <1>p
        <5>2. CASE x # g
          BY <5>2, <2>3, <2>4, <1>p, <1>q DEF Queued
        <5> QED BY <5>1, <5>2
      <4> QED BY <4>1, <4>2 DEF ShownUnlessAstray
    <3> QED BY <3>2, <3>3, <3>4
  <2> QED BY <2>7, <2>8, <2>9, <2>10
<1>5. ASSUME NEW r \in Readers, ReadAnswered(r) PROVE FeedInv'
  <2>1. PICK items \in {Orders, Spots} \ {{}} :
          reads' = [reads EXCEPT ![r] =
             [items |-> items, answer |-> [i \in items |-> Listed(real[i])], since |-> {}]]
    BY <1>5 DEF ReadAnswered, Answer
  <2>2. items \subseteq Items
    BY PartsApart
  <2>3. [i \in items |-> Listed(real[i])] \in [items -> Values]
    BY <1>l, <1>t, <2>2
  <2>4. [items |-> items, answer |-> [i \in items |-> Listed(real[i])], since |-> {}] \in Reading
    BY <2>2, <2>3 DEF Reading
  <2>5. UNCHANGED <<real, shown, hearing, queue, saved, behind, astray>>
    BY <1>5 DEF ReadAnswered, snapshot
  <2>6. TypeOK'
    <3>1. reads' \in [Readers -> Reading]
      BY <2>1, <2>4, <1>t
    <3>2. \A x \in Readers : DOMAIN reads'[x].answer = reads'[x].items
      BY <2>1, <1>t DEF TypeOK
    <3> QED BY <2>5, <3>1, <3>2 DEF TypeOK
  <2>7. ReadsSound'
    BY <2>1, <2>5, <1>t DEF ReadsSound
  <2>8. QueuesSound' /\ SavedSound' /\ ShownUnlessAstray'
    BY <2>5, <1>u DEF QueuesSound, SavedSound, ShownUnlessAstray
  <2> QED BY <2>6, <2>7, <2>8
<1>11. ASSUME NEW r \in Readers, NEW margin \in [Margins -> Values], NEW since \in SUBSET Margins,
              \A m \in Margins \ since : margin[m] = Listed(real[m]),
              WithMargin(r, margin, since)
       PROVE  FeedInv'
  <2> DEFINE both == [i \in Parts |-> IF i \in Spots THEN reads[r].answer[i] ELSE margin[i]]
             late == reads[r].since \cup since
  <2>1. /\ reads[r].items = Spots
        /\ reads' = [reads EXCEPT ![r] = [items |-> Parts, answer |-> both, since |-> late]]
        /\ UNCHANGED <<real, shown, hearing, queue, saved, behind, astray>>
    BY <1>11 DEF WithMargin, snapshot
  <2>2. /\ Parts \subseteq Items /\ late \subseteq Items
        /\ \A i \in Spots : reads[r].answer[i] \in Values
    BY <1>t, <2>1, PartsApart DEF Reading, TypeOK
  <2>3. both \in [Parts -> Values]
    BY <2>2, PartsApart
  <2>4. [items |-> Parts, answer |-> both, since |-> late] \in Reading
    BY <2>2, <2>3 DEF Reading
  <2>5. \A i \in Parts : i \in late \/ both[i] = Listed(real[i])
    BY <1>11, <2>1, PartsApart DEF ReadsSound
  <2>6. DOMAIN both = Parts
    OBVIOUS
  <2> HIDE DEF both, late
  <2>7. TypeOK'
    <3>1. reads' \in [Readers -> Reading]
      BY <2>1, <2>4, <1>t
    <3>2. \A x \in Readers : DOMAIN reads'[x].answer = reads'[x].items
      BY <2>1, <2>6, <1>t DEF TypeOK
    <3> QED BY <2>1, <3>1, <3>2 DEF TypeOK
  <2>8. ReadsSound'
    BY <2>1, <2>5, <1>t DEF ReadsSound
  <2>9. QueuesSound' /\ SavedSound' /\ ShownUnlessAstray'
    BY <2>1, <1>u DEF QueuesSound, SavedSound, ShownUnlessAstray
  <2> QED BY <2>7, <2>8, <2>9
<1>12. ASSUME NEW r \in Readers, MarginAnswered(r) PROVE FeedInv'
  <2>1. Answer(Margins) \in [Margins -> Values]
    BY <1>l, <1>t, PartsApart DEF Answer
  <2>2. \A m \in Margins : Answer(Margins)[m] = Listed(real[m])
    BY DEF Answer
  <2>3. WithMargin(r, Answer(Margins), {})
    BY <1>12 DEF MarginAnswered
  <2> QED BY <2>1, <2>2, <2>3, <1>11
<1>13. ASSUME NEW r \in Readers, MarginFails(r) PROVE FeedInv'
  <2> DEFINE nothing == [m \in Margins |-> "none"]
  <2>1. nothing \in [Margins -> Values]
    BY DEF Values
  <2>2. \A m \in Margins \ Hidden(Margins) : nothing[m] = Listed(real[m])
    BY NothingHidden
  <2>3. Hidden(Margins) \in SUBSET Margins
    BY DEF Hidden
  <2>4. WithMargin(r, nothing, Hidden(Margins))
    BY <1>13 DEF MarginFails
  <2> HIDE DEF nothing
  <2> QED BY <2>1, <2>2, <2>3, <2>4, <1>11
<1>6. ASSUME NEW r \in Readers, ReadReturns(r) PROVE FeedInv'
  <2>1. UNCHANGED <<real, hearing, queue, saved, behind>>
    BY <1>6 DEF ReadReturns, snapshot
  <2>2. \A i \in Items : shown'[i] = IF i \in reads[r].items THEN reads[r].answer[i] ELSE shown[i]
    BY <1>6 DEF ReadReturns, Replaced
  <2>3. NoRead \in Reading /\ NoRead.items = {} /\ DOMAIN NoRead.answer = NoRead.items
    BY NothingRead
  <2>4. TypeOK'
    <3>1. \A i \in reads[r].items : reads[r].answer[i] \in Values
      BY <1>t DEF Reading, TypeOK
    <3>2. shown' \in [Items -> Values]
      BY <3>1, <1>6, <1>t DEF ReadReturns, Replaced
    <3>3. reads' \in [Readers -> Reading] /\ \A x \in Readers : DOMAIN reads'[x].answer = reads'[x].items
      BY <1>6, <1>t, <2>3 DEF ReadReturns, TypeOK
    <3>4. astray' \subseteq Items
      BY <1>6, <1>t DEF ReadReturns, Reading
    <3> QED BY <2>1, <3>2, <3>3, <3>4 DEF TypeOK
  <2>5. ReadsSound'
    BY <1>6, <1>t, <2>1, <2>3 DEF ReadReturns, ReadsSound
  <2>6. ShownUnlessAstray'
    <3> SUFFICES ASSUME NEW j \in Items
                 PROVE  shown'[j] = Listed(real[j]) \/ j \in astray' \/ j \in Queued
      BY <2>1, <1>u DEF ShownUnlessAstray
    <3>1. astray' = (astray \ reads[r].items) \cup reads[r].since
      BY <1>6 DEF ReadReturns
    <3>2. CASE j \in reads[r].items
      BY <3>1, <3>2, <2>2 DEF ReadsSound
    <3>3. CASE j \notin reads[r].items
      BY <3>1, <3>3, <2>2 DEF ShownUnlessAstray
    <3> QED BY <3>2, <3>3
  <2> QED BY <2>1, <2>4, <2>5, <2>6 DEF QueuesSound, SavedSound
<1>7. ASSUME NEW r \in Readers, ReadFails(r) PROVE FeedInv'
  <2>1. UNCHANGED <<real, shown, hearing, queue, saved, behind, astray>>
    BY <1>7 DEF ReadFails, snapshot
  <2>2. NoRead \in Reading /\ NoRead.items = {} /\ DOMAIN NoRead.answer = NoRead.items
    BY NothingRead
  <2>3. TypeOK'
    BY <1>7, <1>t, <2>1, <2>2 DEF ReadFails, TypeOK
  <2>4. ReadsSound'
    BY <1>7, <1>t, <2>1, <2>2 DEF ReadFails, ReadsSound
  <2>5. QueuesSound' /\ SavedSound' /\ ShownUnlessAstray'
    BY <2>1, <1>u DEF QueuesSound, SavedSound, ShownUnlessAstray
  <2> QED BY <2>3, <2>4, <2>5
<1>8. ASSUME Persist PROVE FeedInv'
  <2>1. Queued \subseteq Items
    BY <1>p DEF Queued
  <2>2. TypeOK'
    BY <1>8, <2>1 DEF Persist, TypeOK
  <2>3. SavedSound'
    BY <1>8 DEF Persist, SavedSound, ShownUnlessAstray
  <2>4. QueuesSound' /\ ReadsSound' /\ ShownUnlessAstray'
    BY <1>8, <1>u DEF Persist, QueuesSound, ReadsSound, ShownUnlessAstray
  <2> QED BY <2>2, <2>3, <2>4
<1>9. ASSUME Restart PROVE FeedInv'
  <2>1. NoRead \in Reading /\ NoRead.items = {} /\ DOMAIN NoRead.answer = NoRead.items
    BY NothingRead
  <2>2. <<>> \in Seq([item : Reported, value : Values]) /\ SoundQueue(<<>>, real')
    BY EmptySeq DEF SoundQueue
  <2>3. TypeOK'
    BY <1>9, <2>1, <2>2 DEF Restart, snapshot, TypeOK
  <2>4. QueuesSound' /\ ReadsSound'
    BY <1>9, <2>1, <2>2 DEF Restart, QueuesSound, ReadsSound
  <2>5. SavedSound' /\ ShownUnlessAstray'
    BY <1>9 DEF Restart, snapshot, SavedSound, ShownUnlessAstray
  <2> QED BY <2>3, <2>4, <2>5
<1>10. CASE UNCHANGED vars
  <2>1. UNCHANGED <<real, shown, hearing, queue, reads, saved, behind, astray>>
    BY <1>10 DEF vars, snapshot
  <2>2. TypeOK'
    BY <2>1 DEF TypeOK
  <2>3. QueuesSound' /\ ReadsSound' /\ SavedSound'
    BY <2>1 DEF QueuesSound, ReadsSound, SavedSound
  <2>4. ShownUnlessAstray'
    BY <2>1, <1>u DEF ShownUnlessAstray
  <2> QED BY <2>2, <2>3, <2>4
<1> QED BY <1>1, <1>2, <1>3, <1>4, <1>5, <1>6, <1>7, <1>8, <1>9, <1>10, <1>12, <1>13 DEF Next

LEMMA FeedInvariant == Spec => []FeedInv
<1>1. Init => FeedInv
  BY FeedInit
<1>2. FeedInv /\ [Next]_vars => FeedInv'
  BY FeedNext
<1> QED BY <1>1, <1>2, PTL DEF Spec

-----------------------------------------------------------------------------
(* Theorems about the feed *)

\* Every variable has its type, whatever the number of items, gateways and
\* readings (StateStore).
THEOREM FeedTypes == Spec => []TypeOK
<1>1. FeedInv => TypeOK
  BY DEF FeedInv
<1> QED BY <1>1, FeedInvariant, PTL

\* What is shown of an order or a balance is wrong only for one of the reasons
\* ShownUnlessAstray gives (_on_user_data, fetch_open_orders, fetch_account,
\* state_wal).
THEOREM ShownIsRightUnlessAstray == Spec => []ShownUnlessAstray
<1>1. FeedInv => ShownUnlessAstray
  BY DEF FeedInv
<1> QED BY <1>1, FeedInvariant, PTL

-----------------------------------------------------------------------------
(* The gateways of the account *)

Startings == {"opening", "creating", "syncing", "reading"}
Stoppings == {"gathering", "closing", "leaving"}

\* Where a request of each kind may stand.
JobsFit == \A h \in Requests :
    /\ work[h].job = "none" => work[h].at = "idle"
    /\ work[h].job = "start" => work[h].at \in Startings
    /\ work[h].job \in {"stop", "replace", "abort"} => work[h].at \in Stoppings

\* The Louise service never stops a gateway, and makes one only if it keeps none.
LouiseConnectsOnce ==
    /\ work[Louise].at \in {"idle", "opening", "creating"}
    /\ work[Louise].at # "idle" => kept = None

\* A gateway whose client is being made is nobody else's and does not run yet.
NewIsNobodys == \A h \in Requests : work[h].at = "creating" =>
    /\ user[work[h].gw] = "off"
    /\ work[h].gw \notin {current, kept}
    /\ \A k \in Requests \ {h} : work[k].gw # work[h].gw

\* Behind the gather of its tasks a gateway does not run again.
GatheredIsOff == \A h \in Requests :
    work[h].at \in {"closing", "leaving"} => user[work[h].gw] = "off"

\* A request of the operator that is alone stops the gateway of the context, or
\* starts one while the context has none.
AloneAtTheContext == ~overlapped => \A h \in Requests \ {Louise} : work[h].at # "idle" =>
    /\ \A k \in Requests \ {h, Louise} : work[k].at = "idle"
    /\ current = IF work[h].job \in {"stop", "replace"} THEN work[h].gw ELSE None

\* The inductive invariant
GatewayInv ==
    /\ GatewayTypeOK
    /\ JobsFit /\ LouiseConnectsOnce /\ NewIsNobodys /\ GatheredIsOff /\ AloneAtTheContext
    /\ NoneLeftRunning

\* No gateway is there, no request is under way.
LEMMA GatewayStarts ==
  GatewayInit => GatewayInv
<1>0. None \notin Gateways /\ Louise \in Requests
  BY GatewayAssumption DEF GatewayAssumption
<1> USE <1>0
<1> SUFFICES ASSUME GatewayInit PROVE GatewayInv
  OBVIOUS
<1>1. \A h \in Requests : /\ work[h] = [job |-> "none", at |-> "idle", gw |-> None]
                          /\ work[h].job = "none" /\ work[h].at = "idle" /\ work[h].gw = None
  BY DEF GatewayInit, Idle
<1>2. GatewayTypeOK
  BY <1>1 DEF GatewayInit, Idle, GatewayTypeOK
<1>3. JobsFit /\ LouiseConnectsOnce /\ NewIsNobodys /\ GatheredIsOff /\ AloneAtTheContext
  BY <1>1 DEF JobsFit, LouiseConnectsOnce, NewIsNobodys, GatheredIsOff, AloneAtTheContext
<1>4. NoneLeftRunning
  BY DEF GatewayInit, NoneLeftRunning, Working
<1> QED BY <1>2, <1>3, <1>4 DEF GatewayInv

\* A step of a request changes nobody's work but its own.
LEMMA GatewaySteps ==
  GatewayInv /\ [GatewayNext]_gatewayVars => GatewayInv'
<1> SUFFICES ASSUME GatewayInv, [GatewayNext]_gatewayVars
             PROVE  GatewayInv'
  OBVIOUS
<1>0. None \notin Gateways /\ Louise \in Requests
  BY GatewayAssumption DEF GatewayAssumption
<1> USE <1>0 DEF GatewayInv, GatewayTypeOK, JobsFit, LouiseConnectsOnce, NewIsNobodys, GatheredIsOff,
            AloneAtTheContext, NoneLeftRunning, At, Working, Busy, Idle,
            objects, Startings, Stoppings
<1>1. ASSUME NEW h \in Requests, Opens(h) PROVE GatewayInv'
  BY <1>1 DEF Opens, Spare
<1>2. ASSUME NEW h \in Requests, Gathered(h) PROVE GatewayInv'
  BY <1>2 DEF Gathered
<1>3. ASSUME NEW h \in Requests, KeyClosed(h) PROVE GatewayInv'
  BY <1>3 DEF KeyClosed
<1>4. ASSUME NEW h \in Requests, Left(h) PROVE GatewayInv'
  BY <1>4 DEF Left
<1>5. ASSUME NEW h \in Requests, StartRequest(h) PROVE GatewayInv'
  <2>0. h # Louise /\ work[h].at = "idle" /\ kept' = kept /\ overlapped' \in BOOLEAN
        /\ (~overlapped' => ~overlapped /\ \A k \in Requests \ {h, Louise} : work[k].at = "idle")
    BY <1>5 DEF StartRequest, Begins
  <2>1. CASE current # None /\ StopBegins(h, "replace", current)
    <3>1. current \in Gateways /\ UNCHANGED <<current, kept>> /\ StopBegins(h, "replace", current)
      BY <2>1, <1>5 DEF StartRequest, Begins
    <3>2. GatewayTypeOK'
      BY <2>0, <3>1 DEF StopBegins
    <3>3. JobsFit' /\ LouiseConnectsOnce' /\ NewIsNobodys' /\ GatheredIsOff'
      BY <2>0, <3>1 DEF StopBegins
    <3>4. AloneAtTheContext' /\ NoneLeftRunning'
      BY <2>0, <3>1 DEF StopBegins
    <3> QED BY <3>2, <3>3, <3>4
  <2>2. CASE /\ current = None
             /\ work' = [work EXCEPT ![h] = [job |-> "start", at |-> "opening", gw |-> None]]
             /\ UNCHANGED objects
    BY <2>0, <2>2, <1>5 DEF StartRequest, Begins
  <2> QED BY <1>5, <2>1, <2>2 DEF StartRequest
<1>6. ASSUME NEW h \in Requests, StopRequest(h) PROVE GatewayInv'
  <2>0. h # Louise /\ work[h].at = "idle" /\ kept' = kept /\ overlapped' \in BOOLEAN
        /\ (~overlapped' => ~overlapped /\ \A k \in Requests \ {h, Louise} : work[k].at = "idle")
    BY <1>6 DEF StopRequest, Begins
  <2>1. current \in Gateways /\ UNCHANGED <<current, kept>> /\ StopBegins(h, "stop", current)
    BY <1>6 DEF StopRequest, Begins
  <2>2. GatewayTypeOK'
    BY <2>0, <2>1 DEF StopBegins
  <2>3. JobsFit' /\ LouiseConnectsOnce' /\ NewIsNobodys' /\ GatheredIsOff'
    BY <2>0, <2>1 DEF StopBegins
  <2>4. AloneAtTheContext'
    BY <2>0, <2>1 DEF StopBegins
  <2>5. NoneLeftRunning'
    BY <2>0, <2>1 DEF StopBegins
  <2> QED BY <2>2, <2>3, <2>4, <2>5
<1>7. ASSUME NEW h \in Requests, Created(h) PROVE GatewayInv'
  <2> DEFINE g == work[h].gw
  <2>1. /\ work[h].at = "creating" /\ work[h].job = "start" /\ g \in Gateways
        /\ g \notin {current, kept} /\ \A k \in Requests \ {h} : work[k].gw # g
        /\ UNCHANGED <<current, overlapped, stop, held>>
        /\ client' = [client EXCEPT ![g] = TRUE]
        /\ user' = [user EXCEPT ![g] = "keying"]
    BY <1>7 DEF Created, Started
  <2>2. CASE h = Louise /\ kept' = g /\ work' = [work EXCEPT ![h] = Idle]
    <3>1. /\ work'[h] = [job |-> "none", at |-> "idle", gw |-> None]
          /\ \A k \in Requests \ {h} : work'[k] = work[k]
      BY <2>2
    <3>2. GatewayTypeOK' /\ JobsFit' /\ LouiseConnectsOnce'
      BY <2>1, <2>2
    <3>3. NewIsNobodys' /\ GatheredIsOff' /\ AloneAtTheContext'
      BY <2>1, <2>2, <3>1
    <3>4. NoneLeftRunning'
      BY <2>1, <2>2, <3>1
    <3> QED BY <3>2, <3>3, <3>4
  <2>3. CASE /\ h # Louise
             /\ work' = [work EXCEPT ![h].at = "syncing"]
             /\ UNCHANGED kept
    <3>1. /\ work'[h].job = "start" /\ work'[h].at = "syncing" /\ work'[h].gw = g
          /\ \A k \in Requests \ {h} : work'[k] = work[k]
      BY <2>1, <2>3
    <3>2. GatewayTypeOK' /\ JobsFit' /\ LouiseConnectsOnce'
      BY <2>1, <2>3
    <3>3. NewIsNobodys' /\ GatheredIsOff' /\ AloneAtTheContext'
      BY <2>1, <2>3, <3>1
    <3>4. NoneLeftRunning'
      BY <2>1, <2>3, <3>1
    <3> QED BY <3>2, <3>3, <3>4
  <2> QED BY <1>7, <2>2, <2>3 DEF Created
<1>8. ASSUME NEW h \in Requests, Synced(h) PROVE GatewayInv'
  BY <1>8 DEF Synced
<1>9. ASSUME NEW h \in Requests, Accepted(h) PROVE GatewayInv'
  BY <1>9 DEF Accepted
<1>10. ASSUME NEW h \in Requests, StartFails(h) PROVE GatewayInv'
  <2>1. CASE h # Louise
    <3>1. StopBegins(h, "abort", work[h].gw)
      BY <1>10, <2>1 DEF StartFails
    <3> QED BY <1>10, <2>1, <3>1 DEF StartFails, StopBegins
  <2>2. CASE h = Louise
    <3>1. /\ work' = [work EXCEPT ![h] = Idle] /\ work[h].at = "creating"
          /\ UNCHANGED <<current, kept, client, stop, user, held, overlapped>>
      BY <1>10, <2>2 DEF StartFails
    <3>2. user[work[h].gw] = "off"
      BY <3>1
    <3>3. /\ work'[h].job = "none" /\ work'[h].at = "idle" /\ work'[h].gw = None
          /\ \A k \in Requests \ {h} : work'[k] = work[k]
      BY <3>1
    <3>4. GatewayTypeOK'
      BY <3>1, <3>3
    <3>5. JobsFit' /\ LouiseConnectsOnce' /\ NewIsNobodys' /\ GatheredIsOff'
      BY <2>2, <3>1, <3>3
    <3>6. AloneAtTheContext' /\ NoneLeftRunning'
      BY <2>2, <3>1, <3>2, <3>3
    <3> QED BY <3>4, <3>5, <3>6
  <2> QED BY <2>1, <2>2
<1>11. ASSUME LouiseConnects PROVE GatewayInv'
  BY <1>11 DEF LouiseConnects
<1>12. ASSUME GatewayRestart PROVE GatewayInv'
  BY <1>12 DEF GatewayRestart
<1>13. ASSUME NEW g \in Gateways, User(g) PROVE GatewayInv'
  BY <1>13 DEF User, UserGoes, Keyed, KeyRefused, UserConnects, UserFails,
               KeepaliveFails, UserEnds
<1>14. CASE UNCHANGED gatewayVars
  BY <1>14 DEF gatewayVars
<1>15. CASE GatewayNext
  <2> USE DEF Request, Stopping
  <2> HIDE DEF GatewayInv
  <2> QED BY <1>15, <1>1, <1>2, <1>3, <1>4, <1>5, <1>6, <1>7, <1>8, <1>9, <1>10, <1>11, <1>12, <1>13
      DEF GatewayNext
<1> QED BY <1>14, <1>15

LEMMA GatewayAlways ==
  GatewaySpec => []GatewayInv
<1>1. GatewayInit => GatewayInv
  BY GatewayStarts
<1>2. GatewayInv /\ [GatewayNext]_gatewayVars => GatewayInv'
  BY GatewaySteps
<1> QED BY <1>1, <1>2, PTL DEF GatewaySpec

\* Every variable has its type, for any number of gateways and requests
\* (StateStore, BinanceGateway.__init__).
THEOREM GatewayTypes ==
  GatewaySpec => []GatewayTypeOK
<1>1. GatewayInv => GatewayTypeOK
  BY DEF GatewayInv
<1> QED BY <1>1, GatewayAlways, PTL

\* Whatever the streams do and however often a request fails, a gateway that runs
\* is the context's, Louise's or under way with a request, as long as the
\* requests of the operator come one at a time (gateway_start, gateway_stop).
THEOREM NoGatewayLeftRunning ==
  GatewaySpec => []NoneLeftRunning
<1>1. GatewayInv => NoneLeftRunning
  BY DEF GatewayInv
<1> QED BY <1>1, GatewayAlways, PTL
=============================================================================
