---------------------------- MODULE GatewayFeed ----------------------------
(***************************************************************************)
(* What the gateways of one account put into the StateStore they share     *)
(* (connectors/binance_gateway.py, core/state_store.py): the open orders   *)
(* and the balances, which the user data streams report and a REST call    *)
(* reads, and the snapshot of it that the WAL gives back to the next       *)
(* process (core/state_wal.py).                                            *)
(*                                                                         *)
(* Orders and the parts of a balance are items with a value.  What is      *)
(* shown of an asset is the sum of its spot and its isolated margin: a     *)
(* REST call reads both, a report carries the spot alone and replaces the  *)
(* sum.  Gateway says how the gateways come and go: here a stream that its *)
(* gateway cancels is one more stream that is lost.                        *)
(***************************************************************************)
EXTENDS Naturals, Sequences

CONSTANTS
    Orders,     \* orders of the account
    Assets,     \* assets it may hold
    Funds,      \* amounts of one, "none" apart
    Streams,    \* BinanceGateway objects of the account
    Readers,    \* REST calls that may be under way at once
    MaxQueue    \* bound: reports a stream has not yet brought

Spots == Assets \X {"spot"}
Margins == Assets \X {"margin"}
Parts == Spots \cup Margins
Items == Orders \cup Parts
Reported == Orders \cup Spots      \* the streams are those of the spot account
Values == {"none", "new", "partial", "gone"} \cup Funds

ASSUME FeedAssumption ==
    /\ Orders \cap Parts = {}
    /\ MaxQueue \in Nat

VARIABLES
    real,       \* the items at the exchange
    shown,      \* state.open_orders and the parts that make up state.balances
    hearing,    \* the gateways whose user data stream is connected
    queue,      \* what each of these streams has yet to bring
    reads,      \* fetch_open_orders and fetch_account: what has been answered
    saved,      \* the snapshot
    astray,     \* history: items of which something was missed, lost or overrun
    behind      \* history: items the snapshot may have wrong

snapshot == <<saved, behind>>
vars == <<real, shown, hearing, queue, reads, snapshot, astray>>

Reading == [items : SUBSET Items, answer : UNION {[S -> Values] : S \in SUBSET Items},
            since : SUBSET Items]
NoRead == [items |-> {}, answer |-> [i \in {} |-> "none"], since |-> {}]
Pending(g) == {queue[g][n].item : n \in DOMAIN queue[g]}
Queued == UNION {Pending(g) : g \in Streams}

\* What is listed for a value: an order that is gone is taken off, an asset
\* without funds counts as one that is not there.
Listed(v) == IF v = "gone" THEN "none" ELSE v

\* Items of which something is there, though they are listed as nothing.
Hidden(items) == {i \in items : real[i] # "none"}

-----------------------------------------------------------------------------
(* The exchange *)

Changes(i) ==
    IF i \in Orders THEN CASE real[i] = "none" -> {"new"}
                           [] real[i] = "new" -> {"partial", "gone"}
                           [] real[i] = "partial" -> {"gone"}
                           [] OTHER -> {}
    ELSE ({"none"} \cup Funds) \ {real[i]}

\* The streams that will bring the report of an item.
Told(i) == IF i \in Reported THEN hearing ELSE {}

Change(i) ==
    /\ \A g \in Told(i) : Len(queue[g]) < MaxQueue
    /\ \E v \in Changes(i) :
         /\ real' = [real EXCEPT ![i] = v]
         /\ queue' = [g \in Streams |->
                IF g \in Told(i) THEN Append(queue[g], [item |-> i, value |-> v]) ELSE queue[g]]
    /\ astray' = IF Told(i) = {} THEN astray \cup {i} ELSE astray
    /\ reads' = [r \in Readers |->
           IF i \in reads[r].items THEN [reads[r] EXCEPT !.since = @ \cup {i}] ELSE reads[r]]
    /\ behind' = behind \cup {i}
    /\ UNCHANGED <<shown, hearing, saved>>

-----------------------------------------------------------------------------
(* BinanceGateway: the user data stream *)

StreamConnects(g) ==
    /\ g \notin hearing
    /\ hearing' = hearing \cup {g}
    /\ UNCHANGED <<real, shown, queue, reads, snapshot, astray>>

\* The stream is lost with all it has not brought; nothing is read again when
\* it comes back.
BringsLate(g) ==                                                    \* mutant
    /\ g \in hearing
    /\ hearing' = hearing \ {g}
    /\ UNCHANGED <<real, shown, queue, reads, snapshot, astray>>
StreamDrops(g) ==
    /\ g \in hearing
    /\ hearing' = hearing \ {g}
    /\ queue' = [queue EXCEPT ![g] = <<>>]
    /\ astray' = astray \cup Pending(g)
    /\ UNCHANGED <<real, shown, reads, snapshot>>

\* _on_user_data: an order is put on the list, brought up to date or taken off;
\* the spot is written over the balance, whatever margin the balance included.
Covered(e) == {m \in Margins : e.item \in Spots /\ m[1] = e.item[1]}

OnlyAdds(e) == [shown EXCEPT ![e.item] = IF e.value = "gone" THEN @ ELSE e.value]    \* mutant
Applied(e) == [i \in Items |->
    IF i = e.item THEN Listed(e.value) ELSE IF i \in Covered(e) THEN "none" ELSE shown[i]]
OnUserData(g) ==
    /\ queue[g] # <<>>
    /\ LET e == Head(queue[g])
           more == \E n \in 2 .. Len(queue[g]) : queue[g][n].item = e.item
       IN /\ shown' = Applied(e)
          /\ astray' = (IF more THEN astray ELSE astray \ {e.item}) \cup Hidden(Covered(e))
    /\ queue' = [queue EXCEPT ![g] = Tail(@)]
    /\ UNCHANGED <<real, hearing, reads, snapshot>>

-----------------------------------------------------------------------------
(* BinanceGateway: fetch_open_orders and fetch_account *)

\* The exchange answers; the answer is on its way.  That of the account is only
\* the first one of two.
Answer(items) == [i \in items |-> Listed(real[i])]
ReadAnswered(r) ==
    /\ reads[r].items = {}
    /\ \E items \in {Orders, Spots} \ {{}} :
         reads' = [reads EXCEPT ![r] =
             [items |-> items, answer |-> Answer(items), since |-> {}]]
    /\ UNCHANGED <<real, shown, hearing, queue, snapshot, astray>>

\* The isolated margin is read and added to the spot.
WithMargin(r, margin, since) ==
    /\ reads[r].items = Spots /\ Spots # {}
    /\ reads' = [reads EXCEPT ![r] =
         [items |-> Parts,
          answer |-> [i \in Parts |-> IF i \in Spots THEN reads[r].answer[i] ELSE margin[i]],
          since |-> reads[r].since \cup since]]
    /\ UNCHANGED <<real, shown, hearing, queue, snapshot, astray>>

MarginAnswered(r) == WithMargin(r, Answer(Margins), {})

\* The error is logged and the balance is the spot alone.
MarginFails(r) == WithMargin(r, [m \in Margins |-> "none"], Hidden(Margins))

\* It replaces the list, whatever the streams have brought meanwhile.
Replaced(r) == [i \in Items |-> IF i \in reads[r].items THEN reads[r].answer[i] ELSE shown[i]]
ReadReturns(r) ==
    /\ reads[r].items \in {Orders, Parts} \ {{}}
    /\ shown' = Replaced(r)
    /\ astray' = (astray \ reads[r].items) \cup reads[r].since
    /\ reads' = [reads EXCEPT ![r] = NoRead]
    /\ UNCHANGED <<real, hearing, queue, snapshot>>

\* The call ends in an error: what is shown stays.
ReadFails(r) ==
    /\ reads[r].items # {}
    /\ reads' = [reads EXCEPT ![r] = NoRead]
    /\ UNCHANGED <<real, shown, hearing, queue, snapshot, astray>>

-----------------------------------------------------------------------------
(* The snapshot *)

\* persist, at the end of a cycle of _poll_account_loop.
Persist ==
    /\ saved' = shown
    /\ behind' = astray \cup Queued
    /\ UNCHANGED <<real, shown, hearing, queue, reads, astray>>

\* The process ends and another one starts from the snapshot.
Restart ==
    /\ shown' = saved
    /\ astray' = behind
    /\ hearing' = {}
    /\ queue' = [g \in Streams |-> <<>>]
    /\ reads' = [r \in Readers |-> NoRead]
    /\ UNCHANGED <<real, snapshot>>

\* An account without orders or funds, and no snapshot.
Init ==
    /\ real = [i \in Items |-> "none"]
    /\ shown = [i \in Items |-> "none"]
    /\ hearing = {}
    /\ queue = [g \in Streams |-> <<>>]
    /\ reads = [r \in Readers |-> NoRead]
    /\ saved = shown
    /\ astray = {}
    /\ behind = {}

Next ==
    \/ \E i \in Items : Change(i)
    \/ \E g \in Streams : StreamConnects(g) \/ StreamDrops(g) \/ OnUserData(g)
    \/ \E r \in Readers :
         \/ ReadAnswered(r) \/ MarginAnswered(r) \/ MarginFails(r)
         \/ ReadReturns(r) \/ ReadFails(r)
    \/ Persist \/ Restart

Spec == Init /\ [][Next]_vars

-----------------------------------------------------------------------------
(* Properties *)

\* Every variable has its type (StateStore).
TypeOK ==
    /\ real \in [Items -> Values]
    /\ shown \in [Items -> Values]
    /\ hearing \subseteq Streams
    /\ queue \in [Streams -> Seq([item : Reported, value : Values])]
    /\ \A g \in Streams \ hearing : queue[g] = <<>>
    /\ reads \in [Readers -> Reading]
    /\ \A r \in Readers : DOMAIN reads[r].answer = reads[r].items
    /\ saved \in [Items -> Values]
    /\ astray \subseteq Items /\ behind \subseteq Items

\* What the interface shows of an order or a balance is wrong only while a
\* report of it is still on its way, or, until the next report of it or the next
\* undisturbed reading, when no stream was there to hear it, a stream was lost
\* with it, a reading answered before it returned after it, or the process ended
\* between its snapshot and it; and the isolated margin in a balance, until the
\* next undisturbed reading, also when it changed, which no stream says, a report
\* of the spot was written over it, or a reading could not get it
\* (_on_user_data, fetch_open_orders, fetch_account, state_wal).
ShownUnlessAstray == \A i \in Items :
    shown[i] = Listed(real[i]) \/ i \in astray \/ i \in Queued
=============================================================================
