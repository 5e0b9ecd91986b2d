---------------------------- MODULE Fuse_proofs ----------------------------
(***************************************************************************)
(* Proofs about Fuse: for every set of fuses and all cooldowns, ceilings   *)
(* and grace windows, a fuse blocks as long as its trip promised and       *)
(* escalates when it trips again while hot.                                *)
(***************************************************************************)
EXTENDS Fuse, TLAPS

LEMMA Parameters ==
    ASSUME NEW f \in Fuses
    PROVE  /\ Base[f] \in Nat \ {0} /\ MaxCool[f] \in Nat \ {0} /\ Grace[f] \in Nat \ {0}
           /\ Base[f] <= MaxCool[f] /\ MaxCool[f] <= Base[f] * Factor[MaxStreak]
           /\ MaxStreak \in Nat \ {0}
           /\ \A s \in 1 .. MaxStreak : Factor[s] \in Nat \ {0}
           /\ \A s \in 1 .. MaxStreak - 1 : Factor[s + 1] = 2 * Factor[s]
BY FuseAssumption DEF FuseAssumption

-----------------------------------------------------------------------------
(* The escalation *)

LEMMA EscalatedRange ==
    ASSUME NEW f \in Fuses, NEW s \in 1 .. MaxStreak
    PROVE  Escalated(f, s) \in Base[f] .. MaxCool[f]
<1>1. Base[f] \in Nat /\ MaxCool[f] \in Nat /\ Base[f] <= MaxCool[f] /\ Factor[s] \in Nat \ {0}
  BY Parameters
<1>2. Base[f] * Factor[s] \in Nat /\ Base[f] <= Base[f] * Factor[s]
  BY <1>1
<1> DEFINE x == Base[f] * Factor[s]
<1> HIDE DEF x
<1>3. Lesser(x, MaxCool[f]) \in Base[f] .. MaxCool[f]
  BY <1>1, <1>2 DEF Lesser, x
<1> QED BY <1>3 DEF Escalated, x

\* One trip more doubles the cooldown, up to the ceiling, also at MaxStreak.
LEMMA EscalatedDoubles ==
    ASSUME NEW f \in Fuses, NEW s \in 1 .. MaxStreak
    PROVE  Escalated(f, Lesser(s + 1, MaxStreak)) >= Lesser(2 * Escalated(f, s), MaxCool[f])
<1> DEFINE x == Base[f] * Factor[s]
<1>1. /\ Base[f] \in Nat /\ MaxCool[f] \in Nat /\ Factor[s] \in Nat /\ MaxStreak \in Nat
      /\ MaxCool[f] <= Base[f] * Factor[MaxStreak]
  BY Parameters
<1>2. x \in Nat
  BY <1>1
<1>3. CASE s < MaxStreak
  <2>1. Lesser(s + 1, MaxStreak) = s + 1 /\ s \in 1 .. MaxStreak - 1
    BY <1>1, <1>3 DEF Lesser
  <2>2. Factor[s + 1] = 2 * Factor[s]
    BY <2>1, Parameters
  <2>3. Base[f] * Factor[s + 1] = 2 * x
    BY <1>1, <2>2
  <2> HIDE DEF x
  <2>4. Lesser(2 * x, MaxCool[f]) >= Lesser(2 * Lesser(x, MaxCool[f]), MaxCool[f])
    BY <1>1, <1>2 DEF Lesser
  <2> QED BY <2>1, <2>3, <2>4 DEF Escalated, x
<1>4. CASE s = MaxStreak
  <2>1. Lesser(s + 1, MaxStreak) = MaxStreak
    BY <1>1, <1>4 DEF Lesser
  <2>2. x >= MaxCool[f]
    BY <1>1, <1>4
  <2> HIDE DEF x
  <2>3. Lesser(x, MaxCool[f]) >= Lesser(2 * Lesser(x, MaxCool[f]), MaxCool[f])
    BY <1>1, <1>2, <2>2 DEF Lesser
  <2> QED BY <1>4, <2>1, <2>3 DEF Escalated, x
<1> QED BY <1>1, <1>3, <1>4

-----------------------------------------------------------------------------
(* The inductive invariant, for one fuse *)

Fields(f) == [tripped : BOOLEAN, age : 0 .. MaxCool[f], sinceReset : 0 .. Grace[f],
              cooldown : Base[f] .. MaxCool[f], streak : 0 .. MaxStreak]

\* r is a fuse's record and o, c, k what the history holds of it: the owed
\* time is what the timer has left; an open fuse was reset no earlier than its
\* cooldown ended; a fuse without a streak is calm; the code's streak is
\* never behind the table's climb k, nor a trip's cooldown.
Sound(f, r, o, c, k) ==
    /\ r \in Fields(f) /\ o \in Nat /\ c \in 0 .. Grace[f] /\ k \in Nat
    /\ o > 0 => r.tripped /\ o + r.age = r.cooldown
    /\ ~r.tripped => r.sinceReset <= c
    /\ r.streak = 0 => ~r.tripped /\ c = Grace[f]
    /\ r.streak > 0 => k <= Escalated(f, r.streak)
    /\ r.tripped => r.cooldown >= k

SoundNow(f) == Sound(f, fuse[f], owed[f], calm[f], climb[f])

FuseInv ==
    /\ DOMAIN fuse = Fuses /\ fuse = [f \in Fuses |-> fuse[f]]
    /\ owed \in [Fuses -> Nat] /\ calm \in [Fuses -> Nat] /\ climb \in [Fuses -> Nat]
    /\ \A f \in Fuses : SoundNow(f)

LEMMA InvTypes ==
    ASSUME FuseInv
    PROVE  TypeOK /\ BlockedWhileOwed /\ HotTripsClimb
<1> SUFFICES ASSUME NEW f \in Fuses
             PROVE  /\ fuse[f] \in [tripped : BOOLEAN, age : Nat, sinceReset : Nat,
                                    cooldown : Nat, streak : 0 .. MaxStreak]
                    /\ fuse[f].cooldown \in Base[f] .. MaxCool[f]
                    /\ fuse[f].age \in 0 .. MaxCool[f]
                    /\ fuse[f].sinceReset \in 0 .. Grace[f]
                    /\ owed[f] > 0 => fuse[f].tripped
                    /\ fuse[f].tripped => fuse[f].cooldown >= climb[f]
  BY DEF FuseInv, TypeOK, BlockedWhileOwed, HotTripsClimb
<1>1. /\ fuse[f] \in Fields(f) /\ (owed[f] > 0 => fuse[f].tripped)
      /\ fuse[f].tripped => fuse[f].cooldown >= climb[f]
  BY DEF FuseInv, SoundNow, Sound
<1>2. Base[f] \in Nat /\ MaxCool[f] \in Nat /\ Grace[f] \in Nat
  BY Parameters
<1> QED BY <1>1, <1>2 DEF Fields

-----------------------------------------------------------------------------
(* What each operation makes of one fuse *)

LEMMA TripSound ==
    ASSUME NEW f \in Fuses, NEW force \in BOOLEAN, SoundNow(f), ~fuse[f].tripped
    PROVE  LET r == TrippedAnew(f, force) IN Sound(f, r, r.cooldown, 0, Climbed(f))
<1> DEFINE r == TrippedAnew(f, force)
<1>1. /\ fuse[f] \in Fields(f) /\ calm[f] \in 0 .. Grace[f]
      /\ fuse[f].sinceReset <= calm[f]
      /\ fuse[f].streak = 0 => calm[f] = Grace[f]
      /\ fuse[f].streak > 0 => climb[f] <= Escalated(f, fuse[f].streak)
      /\ climb[f] \in Nat
  BY DEF SoundNow, Sound
<1>2. /\ MaxCool[f] \in Nat \ {0} /\ Base[f] \in Nat /\ Base[f] <= MaxCool[f]
      /\ Grace[f] \in Nat /\ MaxStreak \in Nat \ {0}
  BY Parameters
<1>3. NextStreak(f) \in 1 .. MaxStreak
  BY <1>1, <1>2 DEF NextStreak, Lesser, Fields
<1>4. Escalated(f, NextStreak(f)) \in Base[f] .. MaxCool[f]
  BY <1>3, EscalatedRange
<1> DEFINE n == NextStreak(f)
           k == IF force THEN MaxCool[f] ELSE Escalated(f, n)
<1>5. n \in 0 .. MaxStreak /\ k \in Base[f] .. MaxCool[f] /\ 0 \in 0 .. MaxCool[f]
  BY <1>2, <1>3, <1>4
<1>6. r = [fuse[f] EXCEPT !.tripped = TRUE, !.age = 0, !.streak = n, !.cooldown = k]
  BY DEF TrippedAnew
<1> HIDE DEF r, n, k
<1>7. /\ r \in Fields(f)
      /\ r.tripped = TRUE /\ r.age = 0 /\ r.streak = n /\ r.cooldown = k
  <2>1. r \in Fields(f)
    BY <1>1, <1>5, <1>6 DEF Fields
  <2>2. r.tripped = TRUE
    BY <1>1, <1>6 DEF Fields
  <2>3. r.age = 0
    BY <1>1, <1>6 DEF Fields
  <2>4. r.streak = n
    BY <1>1, <1>6 DEF Fields
  <2>5. r.cooldown = k
    BY <1>1, <1>6 DEF Fields
  <2> QED BY <2>1, <2>2, <2>3, <2>4, <2>5
<1>8. Climbed(f) \in Nat /\ Climbed(f) <= Escalated(f, NextStreak(f)) /\ Climbed(f) <= MaxCool[f]
  <2>1. CASE calm[f] < Grace[f]
    <3>1. fuse[f].streak \in 1 .. MaxStreak /\ fuse[f].sinceReset < Grace[f]
      BY <1>1, <1>2, <2>1 DEF Fields
    <3>2. NextStreak(f) = Lesser(fuse[f].streak + 1, MaxStreak)
      BY <3>1 DEF NextStreak
    <3>3. Escalated(f, NextStreak(f)) >= Lesser(2 * Escalated(f, fuse[f].streak), MaxCool[f])
      BY <3>1, <3>2, EscalatedDoubles
    <3>4. climb[f] <= Escalated(f, fuse[f].streak) /\ Escalated(f, fuse[f].streak) \in Nat
      BY <1>1, <1>2, <3>1, EscalatedRange
    <3>5. Escalated(f, NextStreak(f)) \in Nat
      BY <1>2, <1>4
    <3> QED BY <1>1, <1>2, <2>1, <3>3, <3>4, <3>5 DEF Climbed, Lesser
  <2>2. CASE ~(calm[f] < Grace[f])
    BY <1>2, <1>4, <2>2 DEF Climbed
  <2> QED BY <2>1, <2>2
<1>9. k >= Climbed(f)
  BY <1>2, <1>4, <1>8 DEF k, n
<1>10. k \in Nat /\ n # 0 /\ 0 \in 0 .. Grace[f] /\ 0 \in Nat
  BY <1>2, <1>3, <1>5 DEF n
<1>11. Sound(f, r, r.cooldown, 0, Climbed(f))
  BY <1>3, <1>7, <1>8, <1>9, <1>10 DEF Sound, n
<1> QED BY <1>11 DEF r

LEMMA AskedSound ==
    ASSUME NEW f \in Fuses, SoundNow(f)
    PROVE  /\ Sound(f, Asked(f), owed[f], calm[f], climb[f])
           /\ Asked(f).tripped => fuse[f].tripped
<1>1. Base[f] \in Nat /\ MaxCool[f] \in Nat /\ Grace[f] \in Nat
  BY Parameters
<1>2. CASE ~Expired(f)
  BY <1>2 DEF Asked, SoundNow
<1>3. CASE Expired(f)
  <2> DEFINE r == [fuse[f] EXCEPT !.tripped = FALSE, !.sinceReset = 0]
  <2>1. fuse[f] \in Fields(f)
    BY DEF SoundNow, Sound
  <2>2. /\ r \in Fields(f) /\ r.tripped = FALSE /\ r.sinceReset = 0
        /\ r.streak = fuse[f].streak /\ r.cooldown = fuse[f].cooldown
    <3>1. 0 \in 0 .. Grace[f]
      BY <1>1
    <3>2. r \in Fields(f)
      BY <2>1, <3>1 DEF Fields
    <3>3. r.tripped = FALSE
      BY <2>1 DEF Fields
    <3>4. r.sinceReset = 0
      BY <2>1 DEF Fields
    <3>5. r.streak = fuse[f].streak
      BY <2>1 DEF Fields
    <3>6. r.cooldown = fuse[f].cooldown
      BY <2>1 DEF Fields
    <3> QED BY <3>2, <3>3, <3>4, <3>5, <3>6
  <2>3. owed[f] = 0
    <3>1. fuse[f].age \in Nat /\ fuse[f].cooldown \in Nat /\ fuse[f].age >= fuse[f].cooldown
      BY <1>1, <1>3, <2>1 DEF Expired, Fields
    <3>2. owed[f] \in Nat /\ (owed[f] > 0 => owed[f] + fuse[f].age = fuse[f].cooldown)
      BY DEF SoundNow, Sound
    <3> QED BY <3>1, <3>2
  <2>4. Asked(f) = r
    BY <1>3 DEF Asked
  <2> HIDE DEF r
  <2> QED BY <1>1, <1>3, <2>2, <2>3, <2>4 DEF SoundNow, Sound
<1> QED BY <1>2, <1>3

LEMMA ClearedSound ==
    ASSUME NEW f \in Fuses, SoundNow(f)
    PROVE  /\ Sound(f, Cleared(f), 0, Grace[f], climb[f])
           /\ ~Cleared(f).tripped
<1>1. Base[f] \in Nat /\ MaxCool[f] \in Nat /\ Grace[f] \in Nat /\ MaxStreak \in Nat
      /\ Base[f] <= MaxCool[f]
  BY Parameters
<1>2. fuse[f] \in Fields(f) /\ climb[f] \in Nat
  BY DEF SoundNow, Sound
<1>3. /\ Cleared(f) \in Fields(f) /\ Cleared(f).tripped = FALSE
      /\ Cleared(f).sinceReset = 0 /\ Cleared(f).streak = 0
  <2>1. 0 \in 0 .. Grace[f] /\ 0 \in 0 .. MaxStreak /\ Base[f] \in Base[f] .. MaxCool[f]
    BY <1>1
  <2>2. Cleared(f) \in Fields(f)
    BY <1>2, <2>1 DEF Cleared, Fields
  <2>3. Cleared(f).tripped = FALSE
    BY <1>2 DEF Cleared, Fields
  <2>4. Cleared(f).sinceReset = 0
    BY <1>2 DEF Cleared, Fields
  <2>5. Cleared(f).streak = 0
    BY <1>2 DEF Cleared, Fields
  <2> QED BY <2>2, <2>3, <2>4, <2>5
<1> QED BY <1>1, <1>2, <1>3 DEF Sound

LEMMA AgedSound ==
    ASSUME NEW f \in Fuses, SoundNow(f)
    PROVE  /\ Sound(f, Aged(f), IF owed[f] > 0 THEN owed[f] - 1 ELSE 0,
                    IF owed[f] > 0 THEN 0 ELSE Lesser(calm[f] + 1, Grace[f]), climb[f])
           /\ Aged(f).tripped => fuse[f].tripped
<1>1. /\ Base[f] \in Nat /\ MaxCool[f] \in Nat /\ Grace[f] \in Nat /\ MaxStreak \in Nat
  BY Parameters
<1>2. /\ fuse[f] \in Fields(f) /\ owed[f] \in Nat /\ calm[f] \in 0 .. Grace[f]
      /\ climb[f] \in Nat
      /\ owed[f] > 0 => fuse[f].tripped /\ owed[f] + fuse[f].age = fuse[f].cooldown
      /\ ~fuse[f].tripped => fuse[f].sinceReset <= calm[f]
      /\ fuse[f].streak = 0 => ~fuse[f].tripped /\ calm[f] = Grace[f]
      /\ fuse[f].streak > 0 => climb[f] <= Escalated(f, fuse[f].streak)
      /\ fuse[f].tripped => fuse[f].cooldown >= climb[f]
  BY DEF SoundNow, Sound
<1> DEFINE r == Aged(f)
           a == Lesser(fuse[f].age + 1, MaxCool[f])
           t == Lesser(fuse[f].sinceReset + 1, Grace[f])
<1>3. /\ fuse[f].age \in 0 .. MaxCool[f] /\ fuse[f].cooldown \in 0 .. MaxCool[f]
      /\ fuse[f].sinceReset \in 0 .. Grace[f] /\ fuse[f].tripped \in BOOLEAN
  BY <1>1, <1>2 DEF Fields
<1>4. a \in 0 .. MaxCool[f] /\ t \in 0 .. Grace[f]
  BY <1>1, <1>3 DEF Lesser
<1>5. r = [fuse[f] EXCEPT !.age = a, !.sinceReset = t]
  BY DEF Aged
<1> HIDE DEF r, a, t
<1>6. /\ r \in Fields(f) /\ r.tripped = fuse[f].tripped /\ r.streak = fuse[f].streak
      /\ r.cooldown = fuse[f].cooldown /\ r.age = a /\ r.sinceReset = t
  <2>1. r \in Fields(f)
    BY <1>2, <1>4, <1>5 DEF Fields
  <2>2. r.tripped = fuse[f].tripped
    BY <1>2, <1>5 DEF Fields
  <2>3. r.streak = fuse[f].streak
    BY <1>2, <1>5 DEF Fields
  <2>4. r.cooldown = fuse[f].cooldown
    BY <1>2, <1>5 DEF Fields
  <2>5. r.age = a
    BY <1>2, <1>5 DEF Fields
  <2>6. r.sinceReset = t
    BY <1>2, <1>5 DEF Fields
  <2> QED BY <2>1, <2>2, <2>3, <2>4, <2>5, <2>6
<1>7. CASE owed[f] > 0
  <2>1. fuse[f].tripped /\ fuse[f].streak # 0
    BY <1>2, <1>7
  <2>2. owed[f] - 1 \in Nat /\ (owed[f] - 1) + r.age = r.cooldown /\ 0 \in 0 .. Grace[f]
    BY <1>1, <1>2, <1>3, <1>6, <1>7 DEF Lesser, a
  <2>3. Sound(f, r, owed[f] - 1, 0, climb[f])
    BY <1>2, <1>6, <2>1, <2>2 DEF Sound
  <2> QED BY <1>6, <1>7, <2>3 DEF r
<1>8. CASE ~(owed[f] > 0)
  <2> DEFINE c == Lesser(calm[f] + 1, Grace[f])
  <2>1. c \in 0 .. Grace[f]
    BY <1>1, <1>2 DEF Lesser
  <2>2. ~r.tripped => r.sinceReset <= c
    BY <1>1, <1>2, <1>3, <1>6 DEF Lesser, t
  <2>3. r.streak = 0 => ~r.tripped /\ c = Grace[f]
    BY <1>1, <1>2, <1>6 DEF Lesser
  <2> HIDE DEF c
  <2>4. Sound(f, r, 0, c, climb[f])
    BY <1>2, <1>6, <2>1, <2>2, <2>3 DEF Sound
  <2> QED BY <1>6, <1>8, <2>4 DEF r, c
<1> QED BY <1>7, <1>8

-----------------------------------------------------------------------------
(* What holds of a step *)

\* The step keeps the fuse sound.
StepOK(f) == Sound(f, fuse'[f], owed'[f], calm'[f], climb'[f])

LEMMA TripAllStep ==
    ASSUME FuseInv, NEW S, NEW force \in BOOLEAN, TripAll(S, force), NEW f \in Fuses
    PROVE  StepOK(f)
<1>1. SoundNow(f)
  BY DEF FuseInv
<1>2. fuse'[f] = IF f \in S THEN Trip(f, force) ELSE fuse[f]
  BY DEF TripAll
<1> DEFINE new == f \in S /\ ~fuse[f].tripped
<1>3. /\ owed'[f] = IF new THEN fuse'[f].cooldown ELSE owed[f]
      /\ calm'[f] = IF new THEN 0 ELSE calm[f]
      /\ climb'[f] = IF new THEN Climbed(f) ELSE climb[f]
  BY DEF TripAll, NoteTrips
<1>4. CASE new
  <2>1. fuse'[f] = TrippedAnew(f, force)
    BY <1>2, <1>4 DEF Trip
  <2>2. Sound(f, fuse'[f], fuse'[f].cooldown, 0, Climbed(f))
    BY <1>1, <1>4, <2>1, TripSound
  <2> QED BY <1>3, <1>4, <2>2 DEF StepOK
<1>5. CASE ~new
  <2>1. fuse'[f] = fuse[f]
    BY <1>2, <1>5 DEF Trip
  <2>2. owed'[f] = owed[f] /\ calm'[f] = calm[f] /\ climb'[f] = climb[f]
    BY <1>3, <1>5
  <2> HIDE DEF new
  <2> QED BY <1>1, <2>1, <2>2 DEF StepOK, SoundNow
<1> QED BY <1>4, <1>5

LEMMA StepSound ==
    ASSUME FuseInv, Next, NEW f \in Fuses
    PROVE  StepOK(f)
<1>1. SoundNow(f) /\ DOMAIN fuse = Fuses /\ DOMAIN owed = Fuses /\ DOMAIN calm = Fuses
  BY DEF FuseInv
<1>2. CASE Tick
  <2>1. /\ fuse'[f] = Aged(f) /\ climb'[f] = climb[f]
        /\ owed'[f] = IF owed[f] > 0 THEN owed[f] - 1 ELSE 0
        /\ calm'[f] = IF owed[f] > 0 THEN 0 ELSE Lesser(calm[f] + 1, Grace[f])
    BY <1>2 DEF Tick
  <2> QED BY <1>1, <2>1, AgedSound DEF StepOK
<1>3. ASSUME NEW g \in Fuses, HighReading(g)
      PROVE  StepOK(f)
  BY <1>3, TripAllStep DEF HighReading
<1>4. ASSUME NEW g \in Fuses, Query(g)
      PROVE  StepOK(f)
  <2>1. /\ fuse'[f] = IF f = g THEN Asked(f) ELSE fuse[f]
        /\ owed'[f] = owed[f] /\ calm'[f] = calm[f] /\ climb'[f] = climb[f]
    BY <1>1, <1>4 DEF Query
  <2>2. CASE f = g
    BY <1>1, <2>1, <2>2, AskedSound DEF StepOK
  <2>3. CASE f # g
    BY <1>1, <2>1, <2>3 DEF StepOK, SoundNow
  <2> QED BY <2>2, <2>3
<1>5. ASSUME NEW g \in Fuses, ManualReset(g)
      PROVE  StepOK(f)
  <2>1. /\ fuse'[f] = IF f = g THEN Cleared(f) ELSE fuse[f]
        /\ owed'[f] = IF f = g THEN 0 ELSE owed[f]
        /\ calm'[f] = IF f = g THEN Grace[f] ELSE calm[f]
        /\ climb'[f] = climb[f]
    BY <1>1, <1>5 DEF ManualReset
  <2>2. CASE f = g
    BY <1>1, <2>1, <2>2, ClearedSound DEF StepOK
  <2>3. CASE f # g
    BY <1>1, <2>1, <2>3 DEF StepOK, SoundNow
  <2> QED BY <2>2, <2>3
<1>6. ASSUME NEW code \in FatalCodes, FatalError(code)
      PROVE  StepOK(f)
  BY <1>6, TripAllStep DEF FatalError
<1> QED BY <1>2, <1>3, <1>4, <1>5, <1>6 DEF Next

LEMMA StepShape ==
    ASSUME FuseInv, Next
    PROVE  /\ DOMAIN fuse' = Fuses /\ fuse' = [f \in Fuses |-> fuse'[f]]
           /\ DOMAIN owed' = Fuses /\ owed' = [f \in Fuses |-> owed'[f]]
           /\ DOMAIN calm' = Fuses /\ calm' = [f \in Fuses |-> calm'[f]]
           /\ DOMAIN climb' = Fuses /\ climb' = [f \in Fuses |-> climb'[f]]
<1>1. CASE Tick
  BY <1>1 DEF Tick, FuseInv
<1>2. ASSUME NEW S, NEW force, TripAll(S, force)
      PROVE  /\ DOMAIN fuse' = Fuses /\ fuse' = [f \in Fuses |-> fuse'[f]]
             /\ DOMAIN owed' = Fuses /\ owed' = [f \in Fuses |-> owed'[f]]
             /\ DOMAIN calm' = Fuses /\ calm' = [f \in Fuses |-> calm'[f]]
             /\ DOMAIN climb' = Fuses /\ climb' = [f \in Fuses |-> climb'[f]]
  BY <1>2 DEF TripAll, NoteTrips
<1>3. ASSUME NEW g \in Fuses, Query(g) \/ ManualReset(g)
      PROVE  /\ DOMAIN fuse' = Fuses /\ fuse' = [f \in Fuses |-> fuse'[f]]
             /\ DOMAIN owed' = Fuses /\ owed' = [f \in Fuses |-> owed'[f]]
             /\ DOMAIN calm' = Fuses /\ calm' = [f \in Fuses |-> calm'[f]]
             /\ DOMAIN climb' = Fuses /\ climb' = [f \in Fuses |-> climb'[f]]
  BY <1>3 DEF Query, ManualReset, FuseInv
<1> QED BY <1>1, <1>2, <1>3 DEF Next, HighReading, FatalError

LEMMA InitInv == Init => FuseInv
<1> SUFFICES ASSUME Init PROVE FuseInv
  OBVIOUS
<1>1. ASSUME NEW f \in Fuses PROVE SoundNow(f)
  <2>1. /\ Base[f] \in Nat \ {0} /\ MaxCool[f] \in Nat /\ Grace[f] \in Nat
        /\ MaxStreak \in Nat /\ Base[f] <= MaxCool[f]
    BY Parameters
  <2>2. /\ fuse[f] = [tripped |-> FALSE, age |-> 0, streak |-> 0,
                      sinceReset |-> Grace[f], cooldown |-> Base[f]]
        /\ owed[f] = 0 /\ calm[f] = Grace[f] /\ climb[f] = Base[f]
    BY DEF Init
  <2>3. fuse[f] \in Fields(f)
    BY <2>1, <2>2 DEF Fields
  <2>4. /\ fuse[f].tripped = FALSE /\ fuse[f].streak = 0 /\ fuse[f].sinceReset = Grace[f]
        /\ Grace[f] \in 0 .. Grace[f] /\ Grace[f] <= Grace[f] /\ 0 \in Nat
    BY <2>1, <2>2
  <2>5. fuse[f] \in Fields(f) /\ owed[f] \in Nat /\ calm[f] \in 0 .. Grace[f] /\ climb[f] \in Nat
    BY <2>1, <2>2, <2>3, <2>4
  <2>6. ~(owed[f] > 0) /\ ~(fuse[f].streak > 0)
    BY <2>2, <2>4
  <2>7. fuse[f].sinceReset <= calm[f] /\ calm[f] = Grace[f]
    BY <2>2, <2>4
  <2> QED BY <2>4, <2>5, <2>6, <2>7 DEF SoundNow, Sound
<1>2. \A f \in Fuses : Grace[f] \in Nat /\ Base[f] \in Nat
  BY Parameters
<1>3. /\ DOMAIN fuse = Fuses /\ fuse = [f \in Fuses |-> fuse[f]]
      /\ owed \in [Fuses -> Nat] /\ calm \in [Fuses -> Nat] /\ climb \in [Fuses -> Nat]
  BY <1>2 DEF Init
<1> QED BY <1>1, <1>3 DEF FuseInv

LEMMA StepInv == FuseInv /\ [Next]_vars => FuseInv'
<1> SUFFICES ASSUME FuseInv, [Next]_vars PROVE FuseInv'
  OBVIOUS
<1>1. CASE UNCHANGED vars
  BY <1>1 DEF FuseInv, SoundNow, vars
<1>2. CASE Next
  <2>1. \A f \in Fuses : Sound(f, fuse'[f], owed'[f], calm'[f], climb'[f])
    BY <1>2, StepSound DEF StepOK
  <2>2. \A f \in Fuses : owed'[f] \in Nat /\ calm'[f] \in Nat /\ climb'[f] \in Nat
    <3> SUFFICES ASSUME NEW f \in Fuses
                 PROVE  owed'[f] \in Nat /\ calm'[f] \in Nat /\ climb'[f] \in Nat
      OBVIOUS
    <3>1. owed'[f] \in Nat /\ calm'[f] \in 0 .. Grace[f] /\ climb'[f] \in Nat
      BY <2>1 DEF Sound
    <3>2. Grace[f] \in Nat
      BY Parameters
    <3> QED BY <3>1, <3>2
  <2>3. owed' \in [Fuses -> Nat] /\ calm' \in [Fuses -> Nat] /\ climb' \in [Fuses -> Nat]
    BY <1>2, <2>2, StepShape
  <2>4. DOMAIN fuse' = Fuses /\ fuse' = [f \in Fuses |-> fuse'[f]]
    BY <1>2, StepShape
  <2> QED BY <2>1, <2>3, <2>4 DEF FuseInv, SoundNow
<1> QED BY <1>1, <1>2

-----------------------------------------------------------------------------
(* The theorems *)

\* Every field keeps its type and every cooldown stays between the base and
\* the ceiling (_trip, is_tripped, manual_reset), whatever the parameters.
THEOREM FuseTypes == Spec => []TypeOK
<1>1. FuseInv => TypeOK
  BY InvTypes
<1> QED BY InitInv, StepInv, <1>1, PTL DEF Spec

\* A fuse that tripped blocks for the whole cooldown of that trip, whatever
\* arrives meanwhile short of a manual reset (_trip's early return).
THEOREM BlocksWholeCooldown == Spec => []BlockedWhileOwed
<1>1. FuseInv => BlockedWhileOwed
  BY InvTypes
<1> QED BY InitInv, StepInv, <1>1, PTL DEF Spec

\* The n-th trip of a run of hot trips blocks at least as long as the table of
\* api_fuse.py:13-17 calls for, whatever readings and fatal codes made the run
\* (_trip's streak and is_tripped's lazy reset).
THEOREM HotTripsEscalate == Spec => []HotTripsClimb
<1>1. FuseInv => HotTripsClimb
  BY InvTypes
<1> QED BY InitInv, StepInv, <1>1, PTL DEF Spec

=============================================================================
