------------------------- MODULE ExitScheduleProofs -------------------------
(* Theorems about ExitSchedule, for any plans, number of legs, processes   *)
(* that overlap, and faults: what the state file says of a leg is so on L2 *)
(* and on L1, alone the file forgets nothing that it does not lose whole,  *)
(* and a leg is burned again only where something went wrong.              *)
EXTENDS ExitSchedule, SumTheorems

Phases == {"idle", "submit", "write", "reload", "claim"}
Statuses == {"none", "pending", "submitted", "done"}
Entries == [status : Statuses, amount : Int, isPrivate : BOOLEAN, l2TxHash : Nat,
            submitAfter : Nat]
Copies == [Legs -> Entries]
Ticks == [at : Phases, autoClaim : BOOLEAN, state : Copies, todo : SUBSET Legs,
          changed : BOOLEAN]
ExitRecords == [leg : Legs, amount : Int, isPrivate : BOOLEAN, paid : BOOLEAN]

Shape ==
  /\ file \in Copies /\ process \in [Processes -> Ticks] /\ now \in Nat
  /\ exits \in Seq(ExitRecords)
  /\ request \in [Plans -> Requests \cup {NoRequest}]

\* What a copy of the file says is so: a leg belongs to a request, has its mode
\* and its part of the total; one that was submitted names its exit; one that
\* is done was paid.  Copies may be of any age.
SoundFor(copy, made, asked) ==
  \A l \in Legs :
    /\ copy[l].status # "none" =>
         /\ asked[l[1]] # NoRequest
         /\ copy[l].isPrivate = asked[l[1]].isPrivate
         /\ copy[l].amount = SplitAmount(asked[l[1]].total, SplitInto, l[2])
    /\ copy[l].status \in {"submitted", "done"} =>
         /\ copy[l].l2TxHash \in DOMAIN made
         /\ made[copy[l].l2TxHash].leg = l
         /\ made[copy[l].l2TxHash].isPrivate = copy[l].isPrivate
         /\ made[copy[l].l2TxHash].amount = copy[l].amount
    /\ copy[l].status = "done" => made[copy[l].l2TxHash].paid

\* What a tick still has to do is as it was when it decided to do it.
TodoFits(t) ==
  /\ t.at = "submit" => \A l \in t.todo : t.state[l].status = "pending"
  /\ t.at = "claim" => \A l \in t.todo : t.state[l].status = "submitted"

CopiesInv ==
  /\ Shape
  /\ SoundFor(file, exits, request)
  /\ \A p \in Processes : SoundFor(process[p].state, exits, request) /\ TodoFits(process[p])

\* Exits are only added and paid.
Grown(made, later) ==
  /\ DOMAIN made \subseteq DOMAIN later
  /\ \A tx \in DOMAIN made :
       /\ later[tx].leg = made[tx].leg /\ later[tx].amount = made[tx].amount
       /\ later[tx].isPrivate = made[tx].isPrivate
       /\ made[tx].paid => later[tx].paid

-----------------------------------------------------------------------------
(* The amounts                                                             *)

\* Every part is an integer (buildSplitSchedule).
LEMMA NoisyType ==
  ASSUME NEW total \in Nat, NEW i \in Int
  PROVE  Noisy(total, SplitInto, i) \in Int
<1>1. \A a \in Int : Truncated(a, 100) \in Int
  BY DEF Truncated
<1>2. total \div SplitInto \in Int
  BY ScheduleConstants
<1>3. noisePct(i) \in Int
  BY DEF noisePct
<1>4. \A a, b \in Int : a * b \in Int
  OBVIOUS
<1>5. (total \div SplitInto) * noisePct(i) \in Int
  BY <1>2, <1>3, <1>4
<1> QED BY <1>1, <1>2, <1>5 DEF Noisy

\* The parts before the last one, as a function.
Others(total) == [i \in 0..(SplitInto - 2) |-> Noisy(total, SplitInto, i)]

LEMMA OthersSum ==
  ASSUME NEW total \in Nat
  PROVE  /\ IsFiniteSet(0..(SplitInto - 2)) /\ IntOn(Others(total), 0..(SplitInto - 2))
         /\ Sum(Others(total), 0..(SplitInto - 2)) \in Int
<1>1. IsFiniteSet(0..(SplitInto - 2))
  BY ScheduleConstants, FS_Interval
<1>2. IntOn(Others(total), 0..(SplitInto - 2))
  BY NoisyType DEF IntOn, Others
<1> QED BY <1>1, <1>2, SumType

LEMMA SplitType ==
  ASSUME NEW total \in Nat, NEW k \in 1..SplitInto
  PROVE  SplitAmount(total, SplitInto, k) \in Int
<1>1. CASE k < SplitInto
  BY <1>1, NoisyType DEF SplitAmount
<1>2. CASE ~ (k < SplitInto)
  BY <1>2, OthersSum DEF SplitAmount, Others, Sum
<1> QED BY <1>1, <1>2

LegsOf(plan) == {plan} \X (1..SplitInto)

\* A plan has finitely many legs.
LEMMA FiniteParts == IsFiniteSet(1..SplitInto) /\ IsFiniteSet(Plans)
<1>1. SplitInto \in Int
  BY ScheduleConstants
<1>2. IsFiniteSet(1..SplitInto)
  BY <1>1, FS_Interval
<1> QED BY <1>2, ScheduleConstants

\* The legs of a plan share out its total, to the last unit.
LEMMA PartsAddUp ==
  ASSUME NEW total \in Nat, NEW plan, NEW f,
         \A l \in LegsOf(plan) : f[l] = SplitAmount(total, SplitInto, l[2])
  PROVE  Sum(f, LegsOf(plan)) = total
<1> DEFINE legs == {plan} \X (1..SplitInto)
           last == <<plan, SplitInto>>
           rest == legs \ {last}
           others == Others(total)
           ids == 0..(SplitInto - 2)
           h == [i \in ids |-> <<plan, i + 1>>]
<1>0. legs = LegsOf(plan) /\ \A l \in legs : f[l] = SplitAmount(total, SplitInto, l[2])
  BY DEF LegsOf
<1>1. SplitInto \in 2..20
  BY ScheduleConstants
<1>2. last \in legs
  BY <1>1
<1>3. IsFiniteSet(legs)
  <2>1. IsFiniteSet({plan})
    BY FS_Singleton
  <2> QED BY <2>1, FiniteParts, FS_Product
<1>4. IntOn(f, legs)
  <2>1. \A l \in legs : l[2] \in 1..SplitInto
    OBVIOUS
  <2> QED BY <1>0, <2>1, SplitType DEF IntOn
<1>5. Sum(f, legs) = f[last] + Sum(f, rest)
  BY <1>2, <1>3, <1>4, SumRemove
<1>6. rest = {h[i] : i \in ids}
  <2>1. ASSUME NEW l \in rest PROVE \E i \in ids : l = h[i]
    <3>1. l = <<plan, l[2]>> /\ l[2] \in 1..SplitInto /\ l[2] # SplitInto
      OBVIOUS
    <3>2. l[2] - 1 \in ids /\ (l[2] - 1) + 1 = l[2]
      BY <1>1, <3>1
    <3> QED BY <3>1, <3>2
  <2>2. ASSUME NEW i \in ids PROVE h[i] \in rest
    BY <1>1
  <2> QED BY <2>1, <2>2
<1>7. \A i, j \in ids : h[i] = h[j] => i = j
  OBVIOUS
<1>8. \A i \in ids : f[h[i]] = others[i]
  <2> TAKE i \in ids
  <2>1. h[i] \in legs /\ h[i][2] = i + 1 /\ i + 1 < SplitInto
    BY <1>1
  <2>2. f[h[i]] = SplitAmount(total, SplitInto, i + 1)
    BY <1>0, <2>1
  <2>3. (i + 1) - 1 = i
    OBVIOUS
  <2> QED BY <2>1, <2>2, <2>3 DEF SplitAmount, Others
<1>9. Sum(f, rest) = Sum(others, ids)
  <2>1. IsFiniteSet(ids) /\ IntOn(others, ids)
    BY OthersSum
  <2> HIDE DEF h, others, rest, ids
  <2>2. Sum(f, {h[i] : i \in ids}) = Sum(others, ids)
    BY <1>7, <1>8, <2>1, SumRename
  <2> QED BY <1>6, <2>2
<1>10. f[last] = total - Sum(others, ids)
  BY <1>0, <1>2 DEF SplitAmount, Others, Sum
<1>11. Sum(others, ids) \in Int
  BY OthersSum
<1> HIDE DEF legs, last, rest, others, ids
<1> QED BY <1>0, <1>5, <1>9, <1>10, <1>11

-----------------------------------------------------------------------------
(* The order of the legs                                                   *)

\* A leg is a plan and a part of it.
LEMMA LegFields ==
  \A l \in Legs : l = <<l[1], l[2]>> /\ l[1] \in Nat /\ l[2] \in Nat
<1>1. \A l \in Legs : l = <<l[1], l[2]>> /\ l[1] \in Plans /\ l[2] \in 1..SplitInto
  BY DEF Legs
<1>2. Plans \subseteq Nat /\ (1..SplitInto) \subseteq Nat
  BY ScheduleConstants
<1> QED BY <1>1, <1>2

\* A tick takes the legs it holds in the order of the file's array.
LEMMA NextLegIsHeld ==
  ASSUME NEW p \in Processes, process[p].todo \subseteq Legs, process[p].todo # {}
  PROVE  NextLeg(p) \in process[p].todo
<1> DEFINE First(s) == \E l \in s : \A x \in s \ {l} : Earlier(l, x)
           P == { s \in SUBSET Legs : s # {} => First(s) }
<1>1. IsFiniteSet(Legs)
  BY FiniteParts, FS_Product DEF Legs
<1>2. \A x, y, z \in Legs : Earlier(x, y) /\ Earlier(y, z) => Earlier(x, z)
  BY LegFields DEF Earlier
<1>3. \A x, y \in Legs : x # y => Earlier(x, y) \/ Earlier(y, x)
  BY LegFields DEF Earlier
<1>4. ASSUME NEW s \in SUBSET Legs, NEW x \in s, s \ {x} \in P
      PROVE  First(s)
  <2>1. CASE s \ {x} = {}
    BY <2>1
  <2>2. CASE s \ {x} # {}
    <3>1. PICK l \in s \ {x} : \A y \in (s \ {x}) \ {l} : Earlier(l, y)
      BY <1>4, <2>2
    <3>2. CASE Earlier(l, x)
      BY <3>1, <3>2
    <3>3. CASE Earlier(x, l)
      <4>1. \A y \in s \ {x} : Earlier(x, y)
        BY <1>2, <3>1, <3>3
      <4> QED BY <4>1
    <3> QED BY <1>3, <3>1, <3>2, <3>3
  <2> QED BY <2>1, <2>2
<1>5. {} \in P
  OBVIOUS
<1>6. ASSUME NEW s \in SUBSET Legs, NEW x \in s, s \ {x} \in P
      PROVE  s \in P
  BY <1>4, <1>6
<1>7. \A S \in SUBSET Legs : S \in P
  <2> TAKE S \in SUBSET Legs
  <2>1. IsFiniteSet(S)
    BY <1>1, FS_Subset
  <2>2. \A s \in SUBSET S : \A x \in s : s \ {x} \in P => s \in P
    BY <1>6
  <2> HIDE DEF P
  <2> QED BY <1>5, <2>1, <2>2, ElementInduction
<1>8. First(process[p].todo)
  BY <1>7
<1> QED BY <1>8 DEF NextLeg

-----------------------------------------------------------------------------
(* Copies of the file stay sound                                           *)

LEMMA SoundGrows ==
  ASSUME NEW copy, NEW made, NEW later, NEW asked, SoundFor(copy, made, asked), Grown(made, later)
  PROVE  SoundFor(copy, later, asked)
BY DEF SoundFor, Grown

\* What a sound copy says of a submitted leg.
LEMMA SubmittedIsMade ==
  ASSUME NEW copy, NEW made, NEW asked, SoundFor(copy, made, asked),
         NEW l \in Legs, copy[l].status = "submitted"
  PROVE  /\ copy[l].l2TxHash \in DOMAIN made /\ made[copy[l].l2TxHash].leg = l
         /\ made[copy[l].l2TxHash].isPrivate = copy[l].isPrivate
         /\ made[copy[l].l2TxHash].amount = copy[l].amount
BY DEF SoundFor

\* An exit is added at the end.
LEMMA AppendGrows ==
  ASSUME NEW made \in Seq(ExitRecords), NEW e \in ExitRecords
  PROVE  /\ Append(made, e) \in Seq(ExitRecords) /\ Grown(made, Append(made, e))
         /\ Len(Append(made, e)) \in DOMAIN Append(made, e)
         /\ Append(made, e)[Len(Append(made, e))] = e
BY DEF Grown

\* Paying one changes nothing else (TokenBridge.withdraw).
LEMMA PayGrows ==
  ASSUME NEW tx \in DOMAIN exits, exits \in Seq(ExitRecords), Pay(tx)
  PROVE  /\ exits' \in Seq(ExitRecords) /\ Grown(exits, exits') /\ exits'[tx].paid
<1>1. exits' = [exits EXCEPT ![tx] = [exits[tx] EXCEPT !.paid = TRUE]]
  BY DEF Pay
<1>2. exits[tx] \in ExitRecords
  OBVIOUS
<1>3. [exits[tx] EXCEPT !.paid = TRUE] \in ExitRecords
  BY <1>2 DEF ExitRecords
<1>4. DOMAIN exits' = DOMAIN exits
  BY <1>1
<1>5. \A x \in DOMAIN exits : exits[x] \in ExitRecords
  OBVIOUS
<1>6. \A x \in DOMAIN exits :
        exits'[x] = IF x = tx THEN [exits[tx] EXCEPT !.paid = TRUE] ELSE exits[x]
  BY <1>1
<1>7. /\ exits'[tx].paid /\ exits'[tx].leg = exits[tx].leg
      /\ exits'[tx].amount = exits[tx].amount /\ exits'[tx].isPrivate = exits[tx].isPrivate
  BY <1>2, <1>6 DEF ExitRecords
<1> QED BY <1>1, <1>3, <1>4, <1>6, <1>7 DEF Grown

\* other is copy, but for the leg l.
Differs(other, copy, l, leg) == \A x \in Legs : other[x] = IF x = l THEN leg ELSE copy[x]

\* A leg that moves on is sound when it names its exit, and is paid if done.
LEMMA SoundWith ==
  ASSUME NEW copy, NEW other, NEW made, NEW asked, NEW l \in Legs, NEW leg,
         SoundFor(copy, made, asked), copy[l].status # "none",
         Differs(other, copy, l, leg),
         leg.isPrivate = copy[l].isPrivate, leg.amount = copy[l].amount,
         leg.l2TxHash \in DOMAIN made, made[leg.l2TxHash].leg = l,
         made[leg.l2TxHash].isPrivate = leg.isPrivate, made[leg.l2TxHash].amount = leg.amount,
         leg.status = "submitted" \/ made[leg.l2TxHash].paid
  PROVE  SoundFor(other, made, asked)
<1> SUFFICES ASSUME NEW x \in Legs
             PROVE  /\ other[x].status # "none" =>
                         /\ asked[x[1]] # NoRequest
                         /\ other[x].isPrivate = asked[x[1]].isPrivate
                         /\ other[x].amount = SplitAmount(asked[x[1]].total, SplitInto, x[2])
                    /\ other[x].status \in {"submitted", "done"} =>
                         /\ other[x].l2TxHash \in DOMAIN made
                         /\ made[other[x].l2TxHash].leg = x
                         /\ made[other[x].l2TxHash].isPrivate = other[x].isPrivate
                         /\ made[other[x].l2TxHash].amount = other[x].amount
                    /\ other[x].status = "done" => made[other[x].l2TxHash].paid
  BY DEF SoundFor
<1>1. CASE x = l
  <2>1. /\ asked[l[1]] # NoRequest /\ copy[l].isPrivate = asked[l[1]].isPrivate
        /\ copy[l].amount = SplitAmount(asked[l[1]].total, SplitInto, l[2])
    BY DEF SoundFor
  <2>2. other[x] = leg
    BY <1>1 DEF Differs
  <2> QED BY <1>1, <2>1, <2>2
<1>2. CASE x # l
  <2>1. other[x] = copy[x]
    BY <1>2 DEF Differs
  <2> QED BY <2>1 DEF SoundFor
<1> QED BY <1>1, <1>2

\* A copy that holds nothing is sound.
LEMMA EmptyCopy ==
  /\ Idle \in Ticks /\ Idle.at = "idle" /\ TodoFits(Idle)
  /\ \A made, asked : SoundFor(Idle.state, made, asked)
<1>1. Unscheduled \in Entries /\ Unscheduled.status = "none"
  BY DEF Unscheduled, Entries, Statuses, NoTx
<1>2. [l \in Legs |-> Unscheduled] \in Copies
  BY <1>1 DEF Copies
<1>3. Idle \in Ticks /\ Idle.at = "idle" /\ Idle.todo = {}
      /\ Idle.state = [l \in Legs |-> Unscheduled]
  BY <1>2 DEF Idle, Ticks, Phases
<1>4. TodoFits(Idle)
  BY <1>3 DEF TodoFits
<1>5. \A made, asked : SoundFor(Idle.state, made, asked)
  BY <1>1, <1>3 DEF SoundFor
<1> QED BY <1>3, <1>4, <1>5

LEMMA GrownSame == Grown(exits, exits)
BY DEF Grown

\* One process moves; the file stays, or becomes the copy it held.
LEMMA ProcessStep ==
  ASSUME CopiesInv, NEW p \in Processes,
         process' = [process EXCEPT ![p] = process'[p]],
         process'[p] \in Ticks, TodoFits(process'[p]),
         SoundFor(process'[p].state, exits', request),
         file' \in {file, process[p].state},
         exits' \in Seq(ExitRecords), Grown(exits, exits'), UNCHANGED <<request, now>>
  PROVE  CopiesInv'
<1>1. process' \in [Processes -> Ticks] /\ \A q \in Processes \ {p} : process'[q] = process[q]
  BY DEF CopiesInv, Shape
<1>2. \A q \in Processes : SoundFor(process[q].state, exits', request)
  BY SoundGrows DEF CopiesInv
<1>3. SoundFor(file, exits', request)
  BY SoundGrows DEF CopiesInv
<1>4. process[p].state \in Copies /\ file \in Copies
  BY DEF CopiesInv, Shape, Ticks
<1>5. Shape'
  BY <1>1, <1>4 DEF CopiesInv, Shape
<1>6. SoundFor(file', exits', request')
  <2>1. CASE file' = file
    BY <1>3, <2>1
  <2>2. CASE file' = process[p].state
    BY <1>2, <2>2
  <2> QED BY <2>1, <2>2
<1>7. ASSUME NEW q \in Processes
      PROVE  SoundFor(process'[q].state, exits', request') /\ TodoFits(process'[q])
  <2>1. CASE q = p
    BY <2>1
  <2>2. CASE q # p
    <3>1. process'[q] = process[q] /\ request' = request
      BY <1>1, <2>2
    <3>2. TodoFits(process[q])
      BY DEF CopiesInv
    <3> QED BY <1>2, <3>1, <3>2
  <2> QED BY <2>1, <2>2
<1> QED BY <1>5, <1>6, <1>7 DEF CopiesInv, SoundFor, TodoFits

\* The exits grow or are paid, and nothing else moves.
LEMMA ChainStep ==
  ASSUME CopiesInv, UNCHANGED <<file, process, request>>, now' \in Nat,
         exits' \in Seq(ExitRecords), Grown(exits, exits')
  PROVE  CopiesInv'
<1>1. SoundFor(file, exits', request)
  BY SoundGrows DEF CopiesInv
<1>2. \A p \in Processes : SoundFor(process[p].state, exits', request) /\ TodoFits(process[p])
  BY SoundGrows DEF CopiesInv
<1>3. Shape'
  BY DEF CopiesInv, Shape
<1>4. SoundFor(file', exits', request')
  BY <1>1
<1>5. \A p \in Processes : SoundFor(process'[p].state, exits', request') /\ TodoFits(process'[p])
  BY <1>2
<1> QED BY <1>3, <1>4, <1>5 DEF CopiesInv, SoundFor, TodoFits

-----------------------------------------------------------------------------
(* The steps of a tick (bridge.ts, bridge.ts of the CLI)                   *)

LEMMA StartTickInv ==
  ASSUME CopiesInv, NEW p \in Processes, NEW autoClaim \in BOOLEAN, startTick(p, autoClaim)
  PROVE  CopiesInv'
<1> DEFINE t == [at |-> "submit", autoClaim |-> autoClaim, state |-> file, todo |-> Due(file),
                 changed |-> FALSE]
<1>1. process' = [process EXCEPT ![p] = t] /\ UNCHANGED <<file, now, exits, request>>
  BY DEF startTick, Starts
<1>2. process'[p] = t
  BY <1>1 DEF CopiesInv, Shape
<1>3. t \in Ticks
  BY DEF CopiesInv, Shape, Ticks, Phases, Due
<1>4. TodoFits(t)
  BY DEF TodoFits, Due
<1>5. SoundFor(t.state, exits', request)
  BY <1>1 DEF CopiesInv
<1>6. exits' \in Seq(ExitRecords) /\ Grown(exits, exits')
  BY <1>1, GrownSame DEF CopiesInv, Shape
<1> HIDE DEF t
<1> QED BY <1>1, <1>2, <1>3, <1>4, <1>5, <1>6, ProcessStep

\* What a leg in the hands of a tick is.
LEMMA HeldLegFields ==
  ASSUME CopiesInv, NEW p \in Processes, process[p].todo # {}
  PROVE  /\ process[p] \in Ticks /\ process[p].state \in Copies /\ process[p].todo \subseteq Legs
         /\ NextLeg(p) \in process[p].todo /\ NextLeg(p) \in Legs
         /\ HeldLeg(p) = process[p].state[NextLeg(p)] /\ HeldLeg(p) \in Entries
<1>1. process[p] \in Ticks
  BY DEF CopiesInv, Shape
<1>2. process[p].state \in Copies /\ process[p].todo \subseteq Legs
  BY <1>1 DEF Ticks
<1>3. NextLeg(p) \in process[p].todo
  BY <1>2, NextLegIsHeld
<1> QED BY <1>1, <1>2, <1>3 DEF Copies, HeldLeg

\* Changing one leg of a copy changes no other.
LEMMA ChangedFields ==
  ASSUME CopiesInv, NEW p \in Processes, process[p].todo # {}, NEW leg \in Entries
  PROVE  /\ Changed(p, leg) \in Ticks /\ Changed(p, leg).at = process[p].at
         /\ Changed(p, leg).state \in Copies
         /\ \A x \in Legs : Changed(p, leg).state[x] = IF x = NextLeg(p) THEN leg
                                                       ELSE process[p].state[x]
         /\ TodoFits(Changed(p, leg))
<1> DEFINE copy == [process[p].state EXCEPT ![NextLeg(p)] = leg]
           t == [process[p] EXCEPT !.todo = @ \ {NextLeg(p)}, !.state = copy]
<1>1. /\ process[p] \in Ticks /\ process[p].state \in Copies /\ process[p].todo \subseteq Legs
      /\ NextLeg(p) \in Legs
  BY HeldLegFields
<1>2. copy \in Copies
  BY <1>1 DEF Copies
<1>3. \A x \in Legs : copy[x] = IF x = NextLeg(p) THEN leg ELSE process[p].state[x]
  BY <1>1 DEF Copies
<1>4. Changed(p, leg) = t
  BY DEF Changed
<1> HIDE DEF copy
<1>5. /\ t \in Ticks /\ t.at = process[p].at /\ t.state = copy
      /\ t.todo = process[p].todo \ {NextLeg(p)}
  BY <1>1, <1>2 DEF Ticks
<1>6. TodoFits(process[p])
  BY DEF CopiesInv
<1> HIDE DEF t
<1>7. TodoFits(t)
  BY <1>1, <1>3, <1>5, <1>6 DEF TodoFits
<1> QED BY <1>2, <1>3, <1>4, <1>5, <1>7

\* A leg that is left as it was changes no copy.
LEMMA SkipLegInv ==
  ASSUME CopiesInv, NEW p \in Processes, process[p].todo # {}, SkipLeg(p),
         UNCHANGED <<file, request, now>>, exits' \in Seq(ExitRecords), Grown(exits, exits')
  PROVE  CopiesInv'
<1> DEFINE t == [process[p] EXCEPT !.todo = @ \ {NextLeg(p)}]
<1>1. process[p] \in Ticks
  BY HeldLegFields
<1>2. process' = [process EXCEPT ![p] = t]
  BY DEF SkipLeg
<1>3. process'[p] = t
  BY <1>2 DEF CopiesInv, Shape
<1>4. /\ t \in Ticks /\ t.at = process[p].at /\ t.state = process[p].state
      /\ t.todo = process[p].todo \ {NextLeg(p)}
  BY <1>1 DEF Ticks
<1>5. TodoFits(process[p]) /\ SoundFor(process[p].state, exits', request)
  BY SoundGrows DEF CopiesInv
<1> HIDE DEF t
<1>6. TodoFits(t)
  BY <1>4, <1>5 DEF TodoFits
<1> QED BY <1>2, <1>3, <1>4, <1>5, <1>6, ProcessStep

\* The exit a tick makes is the leg's, in the leg's mode.
LEMMA ExitIsTheLegs ==
  ASSUME CopiesInv, NEW p \in Processes, process[p].todo # {}, ExitOnL2(p)
  PROVE  /\ exits' \in Seq(ExitRecords) /\ Grown(exits, exits')
         /\ Len(exits') \in DOMAIN exits' /\ Len(exits') \in Nat
         /\ exits'[Len(exits')].leg = NextLeg(p)
         /\ exits'[Len(exits')].amount = HeldLeg(p).amount
         /\ exits'[Len(exits')].isPrivate = HeldLeg(p).isPrivate
<1> DEFINE e == [leg |-> NextLeg(p), amount |-> HeldLeg(p).amount,
                 isPrivate |-> HeldLeg(p).isPrivate, paid |-> FALSE]
<1>1. exits' = Append(exits, e)
  BY DEF ExitOnL2, legPrivate
<1>2. HeldLeg(p) \in Entries /\ NextLeg(p) \in Legs
  BY HeldLegFields
<1>3. e \in ExitRecords
  BY <1>2 DEF Entries, ExitRecords
<1>4. exits \in Seq(ExitRecords)
  BY DEF CopiesInv, Shape
<1> HIDE DEF e
<1>5. /\ exits' \in Seq(ExitRecords) /\ Grown(exits, exits') /\ Len(exits') \in DOMAIN exits'
      /\ exits'[Len(exits')] = e
  BY <1>1, <1>3, <1>4, AppendGrows
<1>6. Len(exits') \in Nat
  BY <1>5
<1> QED BY <1>5, <1>6 DEF e

LEMMA SubmitLegInv ==
  ASSUME CopiesInv, NEW p \in Processes, submitLeg(p)
  PROVE  CopiesInv'
<1> DEFINE leg == [HeldLeg(p) EXCEPT !.status = "submitted", !.l2TxHash = Len(exits')]
           t == [Changed(p, leg) EXCEPT !.changed = TRUE]
<1>1. /\ process[p].at = "submit" /\ process[p].todo # {} /\ ExitOnL2(p)
      /\ UNCHANGED <<file, now, request>> /\ process' = [process EXCEPT ![p] = t]
  BY DEF submitLeg, At, NoFault
<1>2. /\ NextLeg(p) \in process[p].todo /\ NextLeg(p) \in Legs /\ HeldLeg(p) \in Entries
      /\ HeldLeg(p) = process[p].state[NextLeg(p)]
  BY <1>1, HeldLegFields
<1>3. /\ exits' \in Seq(ExitRecords) /\ Grown(exits, exits')
      /\ Len(exits') \in DOMAIN exits' /\ Len(exits') \in Nat
      /\ exits'[Len(exits')].leg = NextLeg(p)
      /\ exits'[Len(exits')].amount = HeldLeg(p).amount
      /\ exits'[Len(exits')].isPrivate = HeldLeg(p).isPrivate
  BY <1>1, ExitIsTheLegs
<1>4. /\ leg \in Entries /\ leg.status = "submitted" /\ leg.l2TxHash = Len(exits')
      /\ leg.amount = HeldLeg(p).amount /\ leg.isPrivate = HeldLeg(p).isPrivate
  <2> DEFINE n == Len(exits')
             was == HeldLeg(p)
  <2>1. n \in Nat /\ was \in Entries
    BY <1>2, <1>3
  <2> HIDE DEF n, was
  <2>2. LET x == [was EXCEPT !.status = "submitted", !.l2TxHash = n]
        IN /\ x \in Entries /\ x.status = "submitted" /\ x.l2TxHash = n
           /\ x.amount = was.amount /\ x.isPrivate = was.isPrivate
    BY <2>1 DEF Entries, Statuses
  <2> QED BY <2>2 DEF n, was
<1> HIDE DEF leg
<1>5. /\ Changed(p, leg) \in Ticks /\ Changed(p, leg).at = process[p].at
      /\ \A x \in Legs : Changed(p, leg).state[x] = IF x = NextLeg(p) THEN leg
                                                    ELSE process[p].state[x]
      /\ TodoFits(Changed(p, leg))
  BY <1>1, <1>4, ChangedFields
<1>6. t \in Ticks /\ t.at = Changed(p, leg).at /\ t.state = Changed(p, leg).state
      /\ t.todo = Changed(p, leg).todo
  <2> DEFINE c == Changed(p, leg)
  <2>1. c \in Ticks
    BY <1>5
  <2> HIDE DEF c
  <2>2. LET x == [c EXCEPT !.changed = TRUE]
        IN x \in Ticks /\ x.at = c.at /\ x.state = c.state /\ x.todo = c.todo
    BY <2>1 DEF Ticks
  <2> QED BY <2>2 DEF c
<1>7. process'[p] = t
  BY <1>1 DEF CopiesInv, Shape
<1> HIDE DEF t
<1>8. TodoFits(t)
  BY <1>5, <1>6 DEF TodoFits
<1>9. SoundFor(t.state, exits', request)
  <2>1. SoundFor(process[p].state, exits, request) /\ SoundFor(process[p].state, exits', request)
    BY <1>3, SoundGrows DEF CopiesInv
  <2>2. HeldLeg(p).status = "pending"
    BY <1>1, <1>2 DEF CopiesInv, TodoFits
  <2>3. process[p].state[NextLeg(p)].status # "none"
    BY <1>2, <2>2
  <2>4. Differs(t.state, process[p].state, NextLeg(p), leg)
    BY <1>5, <1>6 DEF Differs
  <2> DEFINE copy == process[p].state
             other == t.state
             l == NextLeg(p)
             made == exits'
  <2>5. /\ l \in Legs /\ SoundFor(copy, made, request) /\ copy[l].status # "none"
        /\ Differs(other, copy, l, leg)
        /\ leg.isPrivate = copy[l].isPrivate /\ leg.amount = copy[l].amount
        /\ leg.l2TxHash \in DOMAIN made /\ made[leg.l2TxHash].leg = l
        /\ made[leg.l2TxHash].isPrivate = leg.isPrivate /\ made[leg.l2TxHash].amount = leg.amount
        /\ leg.status = "submitted"
    BY <1>2, <1>3, <1>4, <2>1, <2>3, <2>4
  <2> HIDE DEF copy, other, l, made
  <2>6. SoundFor(other, made, request)
    BY <2>5, SoundWith
  <2> QED BY <2>6 DEF other, made
<1> QED BY <1>1, <1>3, <1>6, <1>7, <1>8, <1>9, ProcessStep

LEMMA SubmitFailsInv ==
  ASSUME CopiesInv, NEW p \in Processes, submitFails(p)
  PROVE  CopiesInv'
<1>1. /\ process[p].todo # {} /\ SkipLeg(p) /\ UNCHANGED <<file, now, request>>
      /\ ExitOnL2(p) \/ UNCHANGED exits
  BY DEF submitFails, At
<1>2. exits' \in Seq(ExitRecords) /\ Grown(exits, exits')
  BY <1>1, ExitIsTheLegs, GrownSame DEF CopiesInv, Shape
<1> QED BY <1>1, <1>2, SkipLegInv

\* A command that has no more to do holds nothing.
LEMMA RestHoldsNothing ==
  ASSUME CopiesInv, NEW p \in Processes
  PROVE  /\ Rest(p) \in Ticks /\ Rest(p).at \in {"reload", "idle"} /\ TodoFits(Rest(p))
         /\ Rest(p).state = Idle.state
<1>1. /\ [Idle EXCEPT !.at = "reload"] \in Ticks
      /\ [Idle EXCEPT !.at = "reload"].at = "reload"
      /\ [Idle EXCEPT !.at = "reload"].state = Idle.state
  BY EmptyCopy DEF Ticks, Phases
<1>2. TodoFits([Idle EXCEPT !.at = "reload"])
  BY <1>1 DEF TodoFits
<1> QED BY <1>1, <1>2, EmptyCopy DEF Rest

LEMMA EndTickInv ==
  ASSUME CopiesInv, NEW p \in Processes, endTick(p) \/ writeFile(p)
  PROVE  CopiesInv'
<1>1. /\ process' = [process EXCEPT ![p] = Rest(p)] /\ UNCHANGED <<now, exits, request>>
      /\ file' \in {file, process[p].state}
  BY DEF endTick, writeFile, NoFault
<1>2. process'[p] = Rest(p)
  BY <1>1 DEF CopiesInv, Shape
<1>3. Rest(p) \in Ticks /\ TodoFits(Rest(p)) /\ Rest(p).state = Idle.state
  BY RestHoldsNothing
<1>4. SoundFor(Rest(p).state, exits', request)
  BY <1>3, EmptyCopy
<1>5. exits' \in Seq(ExitRecords) /\ Grown(exits, exits')
  BY <1>1, GrownSame DEF CopiesInv, Shape
<1> QED BY <1>1, <1>2, <1>3, <1>4, <1>5, ProcessStep

LEMMA OpenFileInv ==
  ASSUME CopiesInv, NEW p \in Processes, openFile(p)
  PROVE  CopiesInv'
<1> DEFINE t == [process[p] EXCEPT !.at = "write"]
<1>1. process' = [process EXCEPT ![p] = t] /\ UNCHANGED <<file, now, exits, request>>
  BY DEF openFile, NoFault
<1>2. process'[p] = t
  BY <1>1 DEF CopiesInv, Shape
<1>3. t \in Ticks /\ t.at = "write" /\ t.state = process[p].state
  BY DEF CopiesInv, Shape, Ticks, Phases
<1>4. SoundFor(t.state, exits', request)
  BY <1>1, <1>3 DEF CopiesInv
<1>5. exits' \in Seq(ExitRecords) /\ Grown(exits, exits')
  BY <1>1, GrownSame DEF CopiesInv, Shape
<1> HIDE DEF t
<1>6. TodoFits(t)
  BY <1>3 DEF TodoFits
<1> QED BY <1>1, <1>2, <1>3, <1>4, <1>5, <1>6, ProcessStep

LEMMA StartClaimsInv ==
  ASSUME CopiesInv, NEW p \in Processes, startClaims(p)
  PROVE  CopiesInv'
<1> DEFINE legs == {l \in Legs : file[l].status = "submitted"}
           t == [process[p] EXCEPT !.at = "claim", !.state = file, !.todo = legs]
<1>1. process' = [process EXCEPT ![p] = t] /\ UNCHANGED <<file, now, exits, request>>
  BY DEF startClaims, NoFault
<1>2. process'[p] = t
  BY <1>1 DEF CopiesInv, Shape
<1>3. t \in Ticks /\ t.at = "claim" /\ t.state = file /\ t.todo = legs
  BY DEF CopiesInv, Shape, Ticks, Phases
<1>4. SoundFor(t.state, exits', request)
  BY <1>1, <1>3 DEF CopiesInv
<1>5. exits' \in Seq(ExitRecords) /\ Grown(exits, exits')
  BY <1>1, GrownSame DEF CopiesInv, Shape
<1> HIDE DEF t
<1>6. TodoFits(t)
  BY <1>3 DEF TodoFits
<1> QED BY <1>1, <1>2, <1>3, <1>4, <1>5, <1>6, ProcessStep

\* The withdrawal of the auto-claim pays the exit the leg names.
LEMMA ClaimPays ==
  ASSUME CopiesInv, NEW p \in Processes, At(p, "claim"), Pay(HeldLeg(p).l2TxHash)
  PROVE  /\ HeldLeg(p).status = "submitted" /\ HeldLeg(p).l2TxHash \in DOMAIN exits
         /\ exits' \in Seq(ExitRecords) /\ Grown(exits, exits')
         /\ exits'[HeldLeg(p).l2TxHash].paid
<1>1. /\ process[p].at = "claim" /\ NextLeg(p) \in process[p].todo /\ NextLeg(p) \in Legs
      /\ HeldLeg(p) = process[p].state[NextLeg(p)]
  BY HeldLegFields DEF At
<1>2. HeldLeg(p).status = "submitted"
  BY <1>1 DEF CopiesInv, TodoFits
<1>3. HeldLeg(p).l2TxHash \in DOMAIN exits
  <2>1. SoundFor(process[p].state, exits, request)
    BY DEF CopiesInv
  <2> QED BY <1>1, <1>2, <2>1, SubmittedIsMade
<1>4. exits \in Seq(ExitRecords)
  BY DEF CopiesInv, Shape
<1> QED BY <1>2, <1>3, <1>4, PayGrows

LEMMA ClaimLegInv ==
  ASSUME CopiesInv, NEW p \in Processes, claimLeg(p)
  PROVE  CopiesInv'
<1> DEFINE leg == [HeldLeg(p) EXCEPT !.status = "done"]
           t == Changed(p, leg)
<1>1. /\ At(p, "claim") /\ process[p].todo # {} /\ Pay(HeldLeg(p).l2TxHash)
      /\ UNCHANGED <<file, now, request>> /\ process' = [process EXCEPT ![p] = t]
  BY DEF claimLeg, At, NoFault, MarkDone
<1>2. /\ NextLeg(p) \in Legs /\ HeldLeg(p) \in Entries
      /\ HeldLeg(p) = process[p].state[NextLeg(p)]
  BY <1>1, HeldLegFields
<1>3. /\ HeldLeg(p).status = "submitted"
      /\ exits' \in Seq(ExitRecords) /\ Grown(exits, exits')
      /\ exits'[HeldLeg(p).l2TxHash].paid
  BY <1>1, ClaimPays
<1>4. /\ leg \in Entries /\ leg.status = "done" /\ leg.l2TxHash = HeldLeg(p).l2TxHash
      /\ leg.amount = HeldLeg(p).amount /\ leg.isPrivate = HeldLeg(p).isPrivate
  BY <1>2 DEF Entries, Statuses
<1> HIDE DEF leg
<1>5. /\ t \in Ticks /\ TodoFits(t)
      /\ \A x \in Legs : t.state[x] = IF x = NextLeg(p) THEN leg ELSE process[p].state[x]
  BY <1>1, <1>4, ChangedFields
<1>6. process'[p] = t
  BY <1>1 DEF CopiesInv, Shape
<1> HIDE DEF t
<1>7. SoundFor(t.state, exits', request)
  <2>1. SoundFor(process[p].state, exits', request)
    BY <1>3, SoundGrows DEF CopiesInv
  <2>2. /\ leg.l2TxHash \in DOMAIN exits' /\ exits'[leg.l2TxHash].leg = NextLeg(p)
        /\ exits'[leg.l2TxHash].isPrivate = leg.isPrivate
        /\ exits'[leg.l2TxHash].amount = leg.amount /\ exits'[leg.l2TxHash].paid
    <3>1. /\ HeldLeg(p).l2TxHash \in DOMAIN exits' /\ exits'[HeldLeg(p).l2TxHash].leg = NextLeg(p)
          /\ exits'[HeldLeg(p).l2TxHash].isPrivate = HeldLeg(p).isPrivate
          /\ exits'[HeldLeg(p).l2TxHash].amount = HeldLeg(p).amount
      BY <1>2, <1>3, <2>1, SubmittedIsMade
    <3> QED BY <1>3, <1>4, <3>1
  <2>3. process[p].state[NextLeg(p)].status # "none"
    BY <1>2, <1>3
  <2>4. Differs(t.state, process[p].state, NextLeg(p), leg)
    BY <1>5 DEF Differs
  <2> DEFINE copy == process[p].state
             other == t.state
             l == NextLeg(p)
             made == exits'
  <2>5. /\ l \in Legs /\ SoundFor(copy, made, request) /\ copy[l].status # "none"
        /\ Differs(other, copy, l, leg)
        /\ leg.isPrivate = copy[l].isPrivate /\ leg.amount = copy[l].amount
        /\ leg.l2TxHash \in DOMAIN made /\ made[leg.l2TxHash].leg = l
        /\ made[leg.l2TxHash].isPrivate = leg.isPrivate /\ made[leg.l2TxHash].amount = leg.amount
        /\ made[leg.l2TxHash].paid
    BY <1>2, <1>4, <2>1, <2>2, <2>3, <2>4
  <2> HIDE DEF copy, other, l, made
  <2>6. SoundFor(other, made, request)
    BY <2>5, SoundWith
  <2> QED BY <2>6 DEF other, made
<1> QED BY <1>1, <1>3, <1>5, <1>6, <1>7, ProcessStep

LEMMA ClaimFailsInv ==
  ASSUME CopiesInv, NEW p \in Processes, claimFails(p)
  PROVE  CopiesInv'
<1>1. process[p].todo # {} /\ SkipLeg(p) /\ UNCHANGED <<file, now, request, exits>>
  BY DEF claimFails, At, LeaveSubmitted, NoFault
<1>2. exits' \in Seq(ExitRecords) /\ Grown(exits, exits')
  BY <1>1, GrownSame DEF CopiesInv, Shape
<1> QED BY <1>1, <1>2, SkipLegInv

LEMMA ClaimThrowsInv ==
  ASSUME CopiesInv, NEW p \in Processes, claimThrows(p)
  PROVE  CopiesInv'
<1>1. /\ At(p, "claim") /\ process[p].todo # {} /\ SkipLeg(p) /\ UNCHANGED <<file, now, request>>
      /\ Pay(HeldLeg(p).l2TxHash) \/ UNCHANGED exits
  BY DEF claimThrows, At, LeaveSubmitted
<1>2. exits' \in Seq(ExitRecords) /\ Grown(exits, exits')
  BY <1>1, ClaimPays, GrownSame DEF CopiesInv, Shape
<1> QED BY <1>1, <1>2, SkipLegInv

LEMMA StopInv ==
  ASSUME CopiesInv, NEW p \in Processes, loadThrows(p) \/ killed(p)
  PROVE  CopiesInv'
<1>1. /\ process' = [process EXCEPT ![p] = Idle] /\ UNCHANGED <<now, exits, request>>
      /\ file' \in {file, process[p].state}
  BY DEF loadThrows, killed, NoFault
<1>2. process'[p] = Idle
  BY <1>1 DEF CopiesInv, Shape
<1>3. exits' \in Seq(ExitRecords) /\ Grown(exits, exits')
  BY <1>1, GrownSame DEF CopiesInv, Shape
<1> QED BY <1>1, <1>2, <1>3, EmptyCopy, ProcessStep

-----------------------------------------------------------------------------
(* The invariant                                                           *)

\* What a schedule will write: its legs, and the others as they are in the file.
LEMMA PlannedFields ==
  ASSUME CopiesInv, NEW plan \in Plans, NEW r \in Requests
  PROVE  /\ Planned(plan, r) \in Copies
         /\ \A l \in Legs :
              /\ l[1] = plan =>
                   /\ Planned(plan, r)[l].status = "pending"
                   /\ Planned(plan, r)[l].isPrivate = r.isPrivate
                   /\ Planned(plan, r)[l].amount = SplitAmount(r.total, SplitInto, l[2])
              /\ l[1] # plan => Planned(plan, r)[l] = file[l]
<1>1. r.total \in Nat /\ r.isPrivate \in BOOLEAN
  BY ScheduleConstants
<1>2. \A l \in Legs : l[1] \in Plans /\ l[2] \in 1..SplitInto
  BY DEF Legs
<1>3. ASSUME NEW l \in Legs
      PROVE  /\ Planned(plan, r)[l] \in Entries
             /\ l[1] = plan =>
                  /\ Planned(plan, r)[l].status = "pending"
                  /\ Planned(plan, r)[l].isPrivate = r.isPrivate
                  /\ Planned(plan, r)[l].amount = SplitAmount(r.total, SplitInto, l[2])
             /\ l[1] # plan => Planned(plan, r)[l] = file[l]
  <2>1. SplitAmount(r.total, SplitInto, l[2]) \in Int
    BY <1>1, <1>2, SplitType
  <2>2. now + l[2] - 1 \in Nat
    <3>1. now \in Nat /\ l[2] \in 1..SplitInto /\ SplitInto \in Nat
      BY <1>2, ScheduleConstants DEF CopiesInv, Shape
    <3> QED BY <3>1
  <2>3. file[l] \in Entries
    BY DEF CopiesInv, Shape, Copies
  <2> DEFINE a == SplitAmount(r.total, SplitInto, l[2])
             n == now + l[2] - 1
             e == [status |-> "pending", amount |-> a, isPrivate |-> r.isPrivate,
                   l2TxHash |-> NoTx, submitAfter |-> n]
  <2>4. Planned(plan, r)[l] = IF l[1] # plan THEN file[l] ELSE e
    BY DEF Planned
  <2> HIDE DEF a, n
  <2>5. a \in Int /\ n \in Nat
    BY <2>1, <2>2 DEF a, n
  <2>6. e \in Entries
    BY <1>1, <2>5 DEF Entries, Statuses, NoTx
  <2> QED BY <2>3, <2>4, <2>6 DEF a
<1>4. Planned(plan, r) \in Copies
  <2>1. Planned(plan, r) = [l \in Legs |-> Planned(plan, r)[l]]
    BY DEF Planned
  <2> QED BY <1>3, <2>1 DEF Copies
<1> QED BY <1>3, <1>4

\* The steps of a schedule, apart from the copy it holds.
LEMMA ScheduleSteps ==
  ASSUME CopiesInv, NEW p \in Processes, NEW plan \in Plans, NEW r \in Requests,
         schedule(p, plan, r)
  PROVE  /\ request[plan] = NoRequest /\ r # NoRequest /\ r.total \in Nat
         /\ \A x \in Plans : request'[x] = IF x = plan THEN r ELSE request[x]
         /\ request' \in [Plans -> Requests \cup {NoRequest}]
         /\ UNCHANGED <<file, text, now, exits, faults>> /\ Overlap /\ text = "whole"
         /\ process[p].at = "idle" /\ process' \in [Processes -> Ticks]
         /\ \A q \in Processes \ {p} : process'[q] = process[q]
         /\ process'[p].at = "submit" /\ process'[p].todo = {}
         /\ process'[p].state = Planned(plan, r)
<1> DEFINE t == [at |-> "submit", autoClaim |-> FALSE, state |-> Planned(plan, r), todo |-> {},
                 changed |-> TRUE]
<1>1. /\ request[plan] = NoRequest /\ request' = [request EXCEPT ![plan] = r]
      /\ UNCHANGED <<file, text, now, exits, faults>> /\ Overlap /\ text = "whole"
      /\ process[p].at = "idle" /\ process' = [process EXCEPT ![p] = t]
  BY DEF schedule, Starts
<1>2. r.total \in Nat /\ r # NoRequest
  BY ScheduleConstants
<1>3. t \in Ticks
  BY PlannedFields DEF Ticks, Phases
<1>4. t.at = "submit" /\ t.todo = {} /\ t.state = Planned(plan, r)
  OBVIOUS
<1> HIDE DEF t
<1>5. /\ process'[p] = t /\ process' \in [Processes -> Ticks]
      /\ \A q \in Processes \ {p} : process'[q] = process[q]
  BY <1>1, <1>3 DEF CopiesInv, Shape
<1>6. /\ \A x \in Plans : request'[x] = IF x = plan THEN r ELSE request[x]
      /\ request' \in [Plans -> Requests \cup {NoRequest}]
  BY <1>1 DEF CopiesInv, Shape
<1> QED BY <1>1, <1>2, <1>4, <1>5, <1>6

\* A plan nobody asked for has no leg in the file or in any copy.
LEMMA ScheduleInv ==
  ASSUME CopiesInv, NEW p \in Processes, NEW plan \in Plans, NEW r \in Requests,
         schedule(p, plan, r)
  PROVE  CopiesInv'
<1>1. /\ request[plan] = NoRequest /\ r # NoRequest /\ r.total \in Nat
      /\ \A x \in Plans : request'[x] = IF x = plan THEN r ELSE request[x]
      /\ request' \in [Plans -> Requests \cup {NoRequest}]
      /\ UNCHANGED <<file, now, exits>>
      /\ process' \in [Processes -> Ticks]
      /\ \A q \in Processes \ {p} : process'[q] = process[q]
      /\ process'[p].at = "submit" /\ process'[p].todo = {}
      /\ process'[p].state = Planned(plan, r)
  BY ScheduleSteps
<1>2. \A l \in Legs : l[1] \in Plans /\ l[2] \in 1..SplitInto
  BY DEF Legs
<1>3. ASSUME NEW copy, SoundFor(copy, exits, request)
      PROVE  SoundFor(copy, exits', request')
  <2>1. \A l \in Legs : l[1] = plan => copy[l].status = "none"
    BY <1>1, <1>3 DEF SoundFor
  <2>2. exits' = exits
    BY <1>1
  <2> QED BY <1>1, <1>2, <1>3, <2>1, <2>2 DEF SoundFor
<1>4. SoundFor(file, exits', request')
  BY <1>3 DEF CopiesInv
<1>5. SoundFor(Planned(plan, r), exits', request')
  <2> DEFINE copy == Planned(plan, r)
  <2>1. \A l \in Legs :
          /\ l[1] = plan => /\ copy[l].status = "pending" /\ copy[l].isPrivate = r.isPrivate
                            /\ copy[l].amount = SplitAmount(r.total, SplitInto, l[2])
          /\ l[1] # plan => copy[l] = file[l]
    BY PlannedFields
  <2> HIDE DEF copy
  <2>2. SoundFor(copy, exits', request')
    BY <1>1, <1>2, <1>4, <2>1 DEF SoundFor
  <2> QED BY <2>2 DEF copy
<1>6. Shape'
  BY <1>1 DEF CopiesInv, Shape
<1>7. SoundFor(file', exits', request')
  BY <1>1, <1>4
<1>8. \A q \in Processes : SoundFor(process'[q].state, exits', request') /\ TodoFits(process'[q])
  <2>1. TodoFits(process'[p])
    BY <1>1 DEF TodoFits
  <2> QED BY <1>1, <1>3, <1>5, <2>1 DEF CopiesInv
<1> QED BY <1>6, <1>7, <1>8 DEF CopiesInv, SoundFor, TodoFits

LEMMA InitInv == Init => CopiesInv
<1> SUFFICES ASSUME Init PROVE CopiesInv
  OBVIOUS
<1>1. file = Idle.state /\ exits = <<>> /\ now = 0
  BY DEF Init, Idle
<1>2. process \in [Processes -> Ticks] /\ \A p \in Processes : process[p] = Idle
  BY EmptyCopy DEF Init
<1>3. Idle.state \in Copies
  BY EmptyCopy DEF Ticks
<1>4. Shape
  BY <1>1, <1>2, <1>3 DEF Init, Shape
<1> QED BY <1>1, <1>2, <1>4, EmptyCopy DEF CopiesInv

LEMMA NextInv == CopiesInv /\ [Next]_vars => CopiesInv'
<1> SUFFICES ASSUME CopiesInv, [Next]_vars PROVE CopiesInv'
  OBVIOUS
<1>1. ASSUME NEW p \in Processes, NEW plan \in Plans, NEW r \in Requests,
             schedule(p, plan, r)
      PROVE  CopiesInv'
  BY <1>1, ScheduleInv
<1>2. ASSUME NEW p \in Processes, NEW autoClaim \in BOOLEAN, startTick(p, autoClaim)
      PROVE  CopiesInv'
  BY <1>2, StartTickInv
<1>3. ASSUME NEW p \in Processes, submitLeg(p) PROVE CopiesInv'
  BY <1>3, SubmitLegInv
<1>4. ASSUME NEW p \in Processes, submitFails(p) PROVE CopiesInv'
  BY <1>4, SubmitFailsInv
<1>5. ASSUME NEW p \in Processes, endTick(p) \/ writeFile(p) PROVE CopiesInv'
  BY <1>5, EndTickInv
<1>6. ASSUME NEW p \in Processes, openFile(p) \/ startClaims(p) PROVE CopiesInv'
  BY <1>6, OpenFileInv, StartClaimsInv
<1>7. ASSUME NEW p \in Processes, claimLeg(p) PROVE CopiesInv'
  BY <1>7, ClaimLegInv
<1>8. ASSUME NEW p \in Processes, claimFails(p) PROVE CopiesInv'
  BY <1>8, ClaimFailsInv
<1>9. ASSUME NEW p \in Processes, claimThrows(p) PROVE CopiesInv'
  BY <1>9, ClaimThrowsInv
<1>10. ASSUME NEW p \in Processes, loadThrows(p) \/ killed(p) PROVE CopiesInv'
  BY <1>10, StopInv
<1>11. exits \in Seq(ExitRecords) /\ now \in Nat
  BY DEF CopiesInv, Shape
<1>12. ASSUME NEW tx \in DOMAIN exits, claimByHand(tx) PROVE CopiesInv'
  <2>1. Pay(tx) /\ UNCHANGED <<file, process, now, request>>
    BY <1>12 DEF claimByHand
  <2>2. exits' \in Seq(ExitRecords) /\ Grown(exits, exits')
    BY <1>11, <2>1, PayGrows
  <2> QED BY <1>11, <2>1, <2>2, ChainStep
<1>13. CASE ProveExits
  BY <1>11, <1>13, GrownSame, ChainStep DEF ProveExits, NoFault
<1>14. CASE Tick
  <2>1. now' \in Nat /\ UNCHANGED <<file, process, exits, request>>
    BY <1>11, <1>14 DEF Tick, NoFault
  <2> QED BY <1>11, <2>1, GrownSame, ChainStep
<1>15. CASE UNCHANGED vars
  BY <1>11, <1>15, GrownSame, ChainStep DEF vars
<1> QED BY <1>1, <1>2, <1>3, <1>4, <1>5, <1>6, <1>7, <1>8, <1>9, <1>10, <1>12, <1>13, <1>14,
           <1>15 DEF Next

THEOREM CopiesAreSound == Spec => []CopiesInv
BY InitInv, NextInv, PTL DEF Spec

\* Whatever overlaps, fails or is killed: a leg the file calls submitted or
\* done names an exit of its own, in the mode that was asked for (tick).
THEOREM SubmittedLegsAreBurnedCorrect == Spec => []SubmittedLegsAreBurned
<1>1. CopiesInv => SubmittedLegsAreBurned
  <2> SUFFICES ASSUME CopiesInv, NEW l \in Legs, file[l].status \in {"submitted", "done"}
               PROVE  /\ file[l].l2TxHash \in Burned(l)
                      /\ exits[file[l].l2TxHash].isPrivate = request[l[1]].isPrivate
    BY DEF SubmittedLegsAreBurned
  <2>1. SoundFor(file, exits, request)
    BY DEF CopiesInv
  <2> QED BY <2>1 DEF SoundFor, Burned
<1> QED BY <1>1, CopiesAreSound, PTL

\* A plan whose legs are all done was paid on L1, and its exits add up to the
\* total that was asked for (buildSplitSchedule, the auto-claim of tick).
THEOREM DonePlansArePaidCorrect == Spec => []DonePlansArePaid
<1>1. CopiesInv => DonePlansArePaid
  <2> SUFFICES ASSUME CopiesInv, NEW plan \in Plans,
                      \A l \in {plan} \X (1..SplitInto) : file[l].status = "done"
               PROVE  LET legs == {plan} \X (1..SplitInto)
                      IN /\ \A l \in legs : exits[file[l].l2TxHash].paid
                         /\ SumFunctionOnSet([l \in legs |-> exits[file[l].l2TxHash].amount], legs)
                              = request[plan].total
    BY DEF DonePlansArePaid
  <2> DEFINE legs == {plan} \X (1..SplitInto)
             f == [l \in legs |-> exits[file[l].l2TxHash].amount]
  <2>1. SoundFor(file, exits, request)
    BY DEF CopiesInv
  <2>2. \A l \in legs : l \in Legs /\ l[1] = plan
    BY DEF Legs
  <2>3. \A l \in legs :
          /\ exits[file[l].l2TxHash].paid
          /\ exits[file[l].l2TxHash].amount = SplitAmount(request[plan].total, SplitInto, l[2])
    BY <2>1, <2>2 DEF SoundFor
  <2>4. request[plan].total \in Nat
    <3>1. request[plan] \in Requests \cup {NoRequest}
      BY DEF CopiesInv, Shape
    <3>2. NoRequest.total = 0
      BY DEF NoRequest
    <3> QED BY <3>1, <3>2, ScheduleConstants
  <2>5. \A l \in legs : f[l] = SplitAmount(request[plan].total, SplitInto, l[2])
    BY <2>3
  <2>6. legs = LegsOf(plan)
    BY DEF LegsOf
  <2> HIDE DEF f, legs
  <2>7. \A l \in LegsOf(plan) : f[l] = SplitAmount(request[plan].total, SplitInto, l[2])
    BY <2>5, <2>6
  <2>8. Sum(f, LegsOf(plan)) = request[plan].total
    BY <2>4, <2>7, PartsAddUp
  <2> QED BY <2>3, <2>6, <2>8 DEF Sum, f, legs
<1> QED BY <1>1, CopiesAreSound, PTL

-----------------------------------------------------------------------------
(* One command at a time                                                   *)

Ahead(copy, old) == \A l \in Legs : Rank(copy[l].status) >= Rank(old[l].status)

\* The file is open just while the command is in its writing.
TextFits(t, txt) == txt = IF t.at = "write" THEN "empty" ELSE "whole"

Holding == {"submit", "claim", "write"}

\* While no command ran beside another, the copy of the one that runs is never
\* behind the file, which it alone opens.
AloneInv ==
  /\ overlaps \in Nat
  /\ overlaps = 0 =>
       /\ \A p, q \in Running : p = q
       /\ \A p \in Running : /\ process[p].at \in Holding => Ahead(process[p].state, file)
                             /\ TextFits(process[p], text)

\* The step forgets nothing, or is a kill that loses the file.
Forgets ==
  overlaps' = 0 =>
    /\ Ahead(file', file)
    /\ Lost' => Lost \/ \E p \in Processes : process[p].at = "write" /\ killed(p)

LEMMA Ranks ==
  /\ Rank("none") = 0 /\ Rank("pending") = 1 /\ Rank("submitted") = 2 /\ Rank("done") = 3
  /\ \A copy \in Copies : \A l \in Legs : Rank(copy[l].status) \in 0..3
<1>1. Rank("none") = 0 /\ Rank("pending") = 1 /\ Rank("submitted") = 2 /\ Rank("done") = 3
  BY DEF Rank
<1>2. \A copy \in Copies : \A l \in Legs : copy[l].status \in Statuses
  BY DEF Copies, Entries
<1>3. \A status \in Statuses : Rank(status) \in 0..3
  BY <1>1 DEF Statuses
<1> QED BY <1>1, <1>2, <1>3

LEMMA AheadOrder ==
  /\ \A copy \in Copies : Ahead(copy, copy)
  /\ \A x, y, z \in Copies : Ahead(x, y) /\ Ahead(y, z) => Ahead(x, z)
BY Ranks DEF Ahead

\* The process that runs moves, and starts no command.
LEMMA AloneProcessStep ==
  ASSUME CopiesInv, AloneInv, NEW p \in Processes, process[p].at # "idle",
         process' = [process EXCEPT ![p] = process'[p]], UNCHANGED overlaps,
         overlaps = 0 => Ahead(file', file),
         overlaps = 0 /\ process'[p].at \in Holding => Ahead(process'[p].state, file'),
         overlaps = 0 => \/ TextFits(process'[p], text')
                         \/ process'[p].at = "idle" /\ process[p].at = "write" /\ killed(p)
  PROVE  AloneInv' /\ Forgets
<1>1. \A q \in Processes \ {p} : process'[q] = process[q]
  BY DEF CopiesInv, Shape
<1>2. overlaps = 0 => \A q \in Processes \ {p} : process[q].at = "idle"
  BY DEF AloneInv, Running
<1>3. overlaps = 0 => \A q \in Running' : q = p
  BY <1>1, <1>2 DEF Running
<1>4. overlaps' = overlaps /\ overlaps \in Nat
  BY DEF AloneInv
<1>5. ASSUME overlaps = 0, NEW q \in Running'
      PROVE  /\ process'[q].at \in Holding => Ahead(process'[q].state, file')
             /\ TextFits(process'[q], text')
  <2>1. q = p /\ process'[q].at # "idle"
    BY <1>3, <1>5 DEF Running
  <2> QED BY <1>5, <2>1
<1>6. ASSUME overlaps = 0, Lost'
      PROVE  \E q \in Processes : process[q].at = "write" /\ killed(q)
  <2>1. process'[p].at = "idle" /\ text' # "whole"
    BY <1>6 DEF Lost, Running
  <2>2. ~ TextFits(process'[p], text')
    BY <2>1 DEF TextFits
  <2> QED BY <1>6, <2>2
<1>7. AloneInv'
  BY <1>3, <1>4, <1>5 DEF AloneInv, Ahead, TextFits
<1> QED BY <1>4, <1>6, <1>7 DEF Forgets

\* What the copy of the process that runs is, alone, and the file with it.
LEMMA AloneCopy ==
  ASSUME CopiesInv, AloneInv, NEW p \in Processes, process[p].at # "idle", overlaps = 0
  PROVE  /\ process[p].at \in Holding => Ahead(process[p].state, file)
         /\ TextFits(process[p], text)
BY DEF AloneInv, Running

\* A command that goes on without opening or writing the file finds it as it was.
LEMMA SameText ==
  ASSUME CopiesInv, AloneInv, NEW p \in Processes, process[p].at # "idle",
         process[p].at # "write", process'[p].at # "write", UNCHANGED text
  PROVE  overlaps = 0 => TextFits(process'[p], text')
BY AloneCopy DEF TextFits

\* A leg that is changed to a later status leaves the copy ahead.
LEMMA AheadWith ==
  ASSUME CopiesInv, NEW p \in Processes, process[p].todo # {}, NEW copy,
         NEW status \in {"submitted", "done"},
         Rank(status) >= Rank(HeldLeg(p).status),
         \A l \in Legs : copy[l].status = IF l = NextLeg(p) THEN status
                                          ELSE process[p].state[l].status
  PROVE  Ahead(copy, process[p].state)
<1>1. /\ process[p].state \in Copies /\ NextLeg(p) \in Legs
      /\ HeldLeg(p) = process[p].state[NextLeg(p)]
  BY HeldLegFields
<1>2. \A l \in Legs : Rank(process[p].state[l].status) \in 0..3
  BY <1>1, Ranks
<1> QED BY <1>1, <1>2 DEF Ahead

\* Alone, the steps of a tick leave its copy ahead of the file, and write nothing else.
LEMMA AloneTick ==
  ASSUME CopiesInv, AloneInv, NEW p \in Processes,
         \/ submitLeg(p) \/ submitFails(p) \/ endTick(p) \/ openFile(p) \/ writeFile(p)
         \/ startClaims(p) \/ claimLeg(p) \/ claimFails(p) \/ claimThrows(p)
         \/ loadThrows(p) \/ killed(p)
  PROVE  AloneInv' /\ Forgets
<1>1. /\ process \in [Processes -> Ticks] /\ file \in Copies /\ process[p] \in Ticks
      /\ process[p].state \in Copies
  BY DEF CopiesInv, Shape, Ticks
<1>2. Ahead(file, file)
  BY <1>1, AheadOrder
<1>3. TodoFits(process[p])
  BY DEF CopiesInv
<1>4. CASE submitLeg(p)
  <2> DEFINE leg == [HeldLeg(p) EXCEPT !.status = "submitted", !.l2TxHash = Len(exits')]
             t == [Changed(p, leg) EXCEPT !.changed = TRUE]
  <2>1. /\ process[p].at = "submit" /\ process[p].todo # {} /\ ExitOnL2(p)
        /\ UNCHANGED <<file, text, overlaps>> /\ process' = [process EXCEPT ![p] = t]
    BY <1>4 DEF submitLeg, At, NoFault
  <2>2. process'[p] = t
    BY <1>1, <2>1
  <2>3. leg \in Entries /\ leg.status = "submitted"
    <3> DEFINE n == Len(exits')
               was == HeldLeg(p)
    <3>1. n \in Nat /\ was \in Entries
      BY <2>1, ExitIsTheLegs, HeldLegFields
    <3> HIDE DEF n, was
    <3>2. LET x == [was EXCEPT !.status = "submitted", !.l2TxHash = n]
          IN x \in Entries /\ x.status = "submitted"
      BY <3>1 DEF Entries, Statuses
    <3> QED BY <3>2 DEF n, was
  <2> HIDE DEF leg
  <2> DEFINE c == Changed(p, leg)
  <2>4. /\ c \in Ticks /\ c.state \in Copies /\ c.at = "submit"
        /\ \A x \in Legs : c.state[x] = IF x = NextLeg(p) THEN leg ELSE process[p].state[x]
    BY <2>1, <2>3, ChangedFields
  <2>5. HeldLeg(p).status = "pending"
    BY <1>3, <2>1, HeldLegFields DEF TodoFits
  <2>6. t.state = c.state /\ t.at = "submit"
    <3> HIDE DEF c
    <3>1. [c EXCEPT !.changed = TRUE].state = c.state /\ [c EXCEPT !.changed = TRUE].at = c.at
      BY <2>4 DEF Ticks
    <3> QED BY <2>4, <3>1 DEF c
  <2> HIDE DEF c, t
  <2>7. Ahead(c.state, process[p].state)
    BY <2>1, <2>3, <2>4, <2>5, AheadWith, Ranks
  <2>8. overlaps = 0 => Ahead(c.state, file)
    BY <1>1, <2>1, <2>4, <2>7, AloneCopy, AheadOrder DEF Holding
  <2>9. process[p].at # "idle" /\ process' = [process EXCEPT ![p] = process'[p]] /\ file' = file
    BY <2>1, <2>2
  <2>10. overlaps = 0 => TextFits(process'[p], text')
    BY <2>1, <2>2, <2>6, SameText
  <2> QED BY <1>2, <2>1, <2>2, <2>6, <2>8, <2>9, <2>10, AloneProcessStep
<1>5. CASE claimLeg(p)
  <2> DEFINE leg == [HeldLeg(p) EXCEPT !.status = "done"]
             c == Changed(p, leg)
  <2>1. /\ process[p].at = "claim" /\ process[p].todo # {} /\ UNCHANGED <<file, text, overlaps>>
        /\ process' = [process EXCEPT ![p] = c]
    BY <1>5 DEF claimLeg, At, MarkDone, NoFault
  <2>2. process'[p] = c
    BY <1>1, <2>1
  <2>3. leg \in Entries /\ leg.status = "done"
    BY <2>1, HeldLegFields DEF Entries, Statuses
  <2> HIDE DEF leg
  <2>4. /\ c.state \in Copies /\ c.at = "claim"
        /\ \A x \in Legs : c.state[x] = IF x = NextLeg(p) THEN leg ELSE process[p].state[x]
    BY <2>1, <2>3, ChangedFields
  <2>5. HeldLeg(p).status = "submitted"
    BY <1>3, <2>1, HeldLegFields DEF TodoFits
  <2> HIDE DEF c
  <2>6. Ahead(c.state, process[p].state)
    BY <2>1, <2>3, <2>4, <2>5, AheadWith, Ranks
  <2>7. overlaps = 0 => Ahead(c.state, file)
    BY <1>1, <2>1, <2>4, <2>6, AloneCopy, AheadOrder DEF Holding
  <2>8. process[p].at # "idle" /\ process' = [process EXCEPT ![p] = process'[p]] /\ file' = file
    BY <2>1, <2>2
  <2>9. overlaps = 0 => TextFits(process'[p], text')
    BY <2>1, <2>2, <2>4, SameText
  <2> QED BY <1>2, <2>1, <2>2, <2>7, <2>8, <2>9, AloneProcessStep
<1>6. CASE submitFails(p) \/ claimFails(p) \/ claimThrows(p)
  <2> DEFINE t == [process[p] EXCEPT !.todo = @ \ {NextLeg(p)}]
  <2>1. /\ process[p].at \in {"submit", "claim"} /\ UNCHANGED <<file, text, overlaps>>
        /\ process' = [process EXCEPT ![p] = t]
    BY <1>6 DEF submitFails, claimFails, claimThrows, At, SkipLeg, LeaveSubmitted, NoFault
  <2>2. process'[p] = t
    BY <1>1, <2>1
  <2>3. t.state = process[p].state /\ t.at = process[p].at
    BY <1>1 DEF Ticks
  <2> HIDE DEF t
  <2>4. overlaps = 0 => Ahead(t.state, file)
    BY <2>1, <2>3, AloneCopy DEF Holding
  <2>5. process[p].at # "idle" /\ process' = [process EXCEPT ![p] = process'[p]] /\ file' = file
    BY <2>1, <2>2
  <2>6. overlaps = 0 => TextFits(process'[p], text')
    BY <2>1, <2>2, <2>3, SameText
  <2> QED BY <1>2, <2>1, <2>2, <2>4, <2>5, <2>6, AloneProcessStep
<1>7. CASE endTick(p) \/ writeFile(p)
  <2>1. /\ process[p].at \in {"submit", "write"} /\ process' = [process EXCEPT ![p] = Rest(p)]
        /\ file' \in {file, process[p].state} /\ UNCHANGED overlaps
    BY <1>7 DEF endTick, writeFile, NoFault
  <2>2. process'[p] = Rest(p)
    BY <1>1, <2>1
  <2>3. Rest(p).at \in {"reload", "idle"}
    BY RestHoldsNothing
  <2>4. overlaps = 0 => Ahead(file', file)
    BY <1>2, <2>1, AloneCopy DEF Holding
  <2>5. process[p].at # "idle" /\ process' = [process EXCEPT ![p] = process'[p]]
        /\ process'[p].at \notin Holding
    BY <2>1, <2>2, <2>3 DEF Holding
  <2>6. ASSUME overlaps = 0 PROVE TextFits(process'[p], text')
    <3>1. TextFits(process[p], text)
      BY <2>5, <2>6, AloneCopy
    <3>2. CASE endTick(p)
      BY <2>2, <2>3, <3>1, <3>2 DEF endTick, TextFits
    <3>3. CASE writeFile(p)
      BY <2>2, <2>3, <3>1, <3>3 DEF writeFile, TextFits
    <3> QED BY <1>7, <3>2, <3>3
  <2> QED BY <2>1, <2>4, <2>5, <2>6, AloneProcessStep
<1>8. CASE openFile(p)
  <2> DEFINE t == [process[p] EXCEPT !.at = "write"]
  <2>1. /\ process[p].at \in {"submit", "claim"} /\ process' = [process EXCEPT ![p] = t]
        /\ UNCHANGED <<file, overlaps>> /\ text' = "empty"
    BY <1>8 DEF openFile, Saves, NoFault
  <2>2. process'[p] = t
    BY <1>1, <2>1
  <2>3. t.state = process[p].state /\ t.at = "write"
    BY <1>1 DEF Ticks
  <2> HIDE DEF t
  <2>4. overlaps = 0 => Ahead(t.state, file)
    BY <2>1, <2>3, AloneCopy DEF Holding
  <2>5. process[p].at # "idle" /\ process' = [process EXCEPT ![p] = process'[p]] /\ file' = file
    BY <2>1, <2>2
  <2>6. TextFits(process'[p], text')
    BY <2>1, <2>2, <2>3 DEF TextFits
  <2> QED BY <1>2, <2>1, <2>2, <2>4, <2>5, <2>6, AloneProcessStep
<1>9. CASE startClaims(p)
  <2> DEFINE legs == {l \in Legs : file[l].status = "submitted"}
             t == [process[p] EXCEPT !.at = "claim", !.state = file, !.todo = legs]
  <2>1. /\ process[p].at = "reload" /\ process' = [process EXCEPT ![p] = t]
        /\ UNCHANGED <<file, text, overlaps>>
    BY <1>9 DEF startClaims, NoFault
  <2>2. process'[p] = t
    BY <1>1, <2>1
  <2>3. t.state = file /\ t.at = "claim"
    BY <1>1 DEF Ticks
  <2> HIDE DEF t
  <2>4. process[p].at # "idle" /\ process' = [process EXCEPT ![p] = process'[p]] /\ file' = file
    BY <2>1, <2>2
  <2>5. overlaps = 0 => TextFits(process'[p], text')
    BY <2>1, <2>2, <2>3, SameText
  <2> QED BY <1>2, <2>1, <2>2, <2>3, <2>4, <2>5, AloneProcessStep
<1>10. CASE (loadThrows(p) /\ process[p].at = "reload") \/ killed(p)
  <2>1. /\ process[p].at # "idle" /\ process' = [process EXCEPT ![p] = Idle]
        /\ UNCHANGED <<file, overlaps>>
    BY <1>10 DEF loadThrows, killed, NoFault
  <2>2. process'[p] = Idle /\ process'[p].at = "idle"
    BY <1>1, <2>1, EmptyCopy
  <2>3. process' = [process EXCEPT ![p] = process'[p]]
    BY <2>1, <2>2
  <2>4. ASSUME overlaps = 0
        PROVE  \/ TextFits(process'[p], text')
               \/ process'[p].at = "idle" /\ process[p].at = "write" /\ killed(p)
    <3>1. TextFits(process[p], text)
      BY <2>1, <2>4, AloneCopy
    <3>2. CASE loadThrows(p) /\ process[p].at = "reload"
      BY <3>1, <3>2 DEF loadThrows, TextFits
    <3>3. CASE killed(p)
      BY <2>2, <3>1, <3>3 DEF killed, TextFits
    <3> QED BY <1>10, <3>2, <3>3
  <2> QED BY <1>2, <2>1, <2>2, <2>3, <2>4, AloneProcessStep DEF Holding
<1>11. CASE loadThrows(p) /\ process[p].at = "idle"
  <2>1. UNCHANGED <<file, text, overlaps>> /\ process' = [process EXCEPT ![p] = Idle]
    BY <1>11 DEF loadThrows, NoFault
  <2>2. /\ process'[p].at = "idle"
        /\ \A q \in Processes \ {p} : process'[q] = process[q]
    BY <1>1, <2>1, EmptyCopy
  <2>3. Running' = Running /\ \A q \in Running : process'[q] = process[q]
    BY <1>11, <2>2 DEF Running
  <2>4. Lost' = Lost
    BY <2>1, <2>3 DEF Lost
  <2>5. AloneInv'
    BY <2>1, <2>3 DEF AloneInv, Ahead, TextFits
  <2> QED BY <1>2, <2>1, <2>4, <2>5 DEF Forgets
<1>12. loadThrows(p) => process[p].at \in {"idle", "reload"}
  BY DEF loadThrows
<1> QED BY <1>4, <1>5, <1>6, <1>7, <1>8, <1>9, <1>10, <1>11, <1>12

LEMMA AloneNext ==
  ASSUME CopiesInv, AloneInv, [Next]_vars
  PROVE  AloneInv' /\ Forgets
<1>1. file \in Copies /\ process \in [Processes -> Ticks] /\ overlaps \in Nat
  BY DEF CopiesInv, Shape, AloneInv
<1>2. Ahead(file, file)
  BY <1>1, AheadOrder
<1>3. ASSUME Overlap
      PROVE  overlaps' \in Nat /\ (overlaps' = 0 => overlaps = 0 /\ Running = {})
  BY <1>1, <1>3 DEF Overlap
<1>4. ASSUME NEW p \in Processes, Overlap, UNCHANGED <<file, text>>, text = "whole",
             process'[p].at = "submit", Ahead(process'[p].state, file),
             \A q \in Processes \ {p} : process'[q] = process[q]
      PROVE  AloneInv' /\ Forgets
  <2>1. overlaps' = 0 => \A q \in Running' : q = p
    BY <1>3, <1>4 DEF Running
  <2>2. overlaps' \in Nat
    BY <1>3, <1>4
  <2>3. file' = file /\ text' = "whole"
    BY <1>4
  <2>4. ASSUME overlaps' = 0, NEW q \in Running'
        PROVE  Ahead(process'[q].state, file') /\ TextFits(process'[q], text')
    <3>1. q = p
      BY <2>1, <2>4
    <3> QED BY <1>4, <2>3, <3>1 DEF TextFits
  <2>5. AloneInv'
    BY <2>1, <2>2, <2>4 DEF AloneInv, Ahead, TextFits
  <2>6. ~ Lost'
    BY <2>3 DEF Lost
  <2> QED BY <1>2, <2>3, <2>5, <2>6 DEF Forgets
<1>5. ASSUME NEW p \in Processes, NEW plan \in Plans, NEW r \in Requests, schedule(p, plan, r)
      PROVE  AloneInv' /\ Forgets
  <2>1. /\ UNCHANGED <<file, text>> /\ Overlap /\ text = "whole" /\ request[plan] = NoRequest
        /\ \A q \in Processes \ {p} : process'[q] = process[q]
        /\ process'[p].at = "submit" /\ process'[p].state = Planned(plan, r)
    BY <1>5, ScheduleSteps
  <2>2. \A l \in Legs : l[1] = plan => file[l].status = "none"
    BY <2>1 DEF CopiesInv, SoundFor
  <2>3. \A l \in Legs : /\ l[1] = plan => Planned(plan, r)[l].status = "pending"
                        /\ l[1] # plan => Planned(plan, r)[l] = file[l]
    BY PlannedFields
  <2>4. Ahead(Planned(plan, r), file)
    BY <1>2, <2>2, <2>3, Ranks DEF Ahead
  <2> QED BY <1>4, <2>1, <2>4
<1>6. ASSUME NEW p \in Processes, NEW autoClaim \in BOOLEAN, startTick(p, autoClaim)
      PROVE  AloneInv' /\ Forgets
  <2>1. /\ Overlap /\ UNCHANGED <<file, text>> /\ text = "whole"
        /\ \A q \in Processes \ {p} : process'[q] = process[q]
        /\ process'[p].state = file /\ process'[p].at = "submit"
    BY <1>1, <1>6 DEF startTick, Starts
  <2> QED BY <1>2, <1>4, <2>1
<1>7. ASSUME UNCHANGED <<file, text, process>>, overlaps' = overlaps \/ Overlap
      PROVE  AloneInv' /\ Forgets
  <2>1. Running' = Running /\ file' = file /\ process' = process /\ text' = text
    BY <1>7 DEF Running
  <2>2. overlaps' \in Nat /\ (overlaps' = 0 => overlaps = 0)
    BY <1>1, <1>3, <1>7
  <2>3. Lost' = Lost
    BY <2>1 DEF Lost
  <2>4. AloneInv'
    BY <2>1, <2>2 DEF AloneInv, Ahead, TextFits
  <2> QED BY <1>2, <2>1, <2>3, <2>4 DEF Forgets
<1>8. ASSUME NEW tx \in DOMAIN exits, claimByHand(tx)
      PROVE  AloneInv' /\ Forgets
  BY <1>7, <1>8 DEF claimByHand
<1>9. CASE ProveExits \/ Tick \/ UNCHANGED vars
  BY <1>7, <1>9 DEF ProveExits, Tick, vars, NoFault
<1> QED BY <1>5, <1>6, <1>8, <1>9, AloneTick DEF Next

LEMMA InitAlone == Init => AloneInv
BY EmptyCopy DEF Init, AloneInv, Running

\* One command at a time the file forgets nothing: no leg disappears or falls
\* back, except all of them in a kill between the opening of the file and the
\* writing (tick, exit, saveBridgeState).
THEOREM StatusOnlyAdvancesCorrect == Spec => StatusOnlyAdvances
<1>1. CopiesInv /\ AloneInv /\ [Next]_vars => AloneInv'
  BY AloneNext
<1>2. CopiesInv /\ AloneInv /\ [Next]_vars
        => [overlaps' = 0 =>
              /\ \A l \in Legs : Rank(file'[l].status) >= Rank(file[l].status)
              /\ Lost' => Lost \/ \E p \in Processes : process[p].at = "write" /\ killed(p)]_vars
  <2> SUFFICES ASSUME CopiesInv, AloneInv, [Next]_vars
               PROVE  overlaps' = 0 =>
                        /\ \A l \in Legs : Rank(file'[l].status) >= Rank(file[l].status)
                        /\ Lost' => \/ Lost
                                    \/ \E p \in Processes : process[p].at = "write" /\ killed(p)
    OBVIOUS
  <2>1. Forgets
    BY AloneNext
  <2> QED BY <2>1 DEF Forgets, Ahead
<1> QED BY <1>1, <1>2, InitAlone, CopiesAreSound, PTL DEF Spec, StatusOnlyAdvances

-----------------------------------------------------------------------------
(* How often a leg is burned                                               *)

Pending(copy, l) == copy[l].status = "pending"

\* The tick will burn the leg, or has and will write so.
Covers(p, l) ==
  \/ process[p].at = "submit" /\ l \in process[p].todo
  \/ /\ process[p].at \in {"submit", "write"} /\ process[p].changed
     /\ process[p].state[l].status \in {"submitted", "done"}

\* The command may yet call the leg pending, or leave it so, whatever others
\* burn.
Stale(p, l) ==
  /\ ~ Covers(p, l)
  /\ \/ process[p].at \in {"submit", "reload"} /\ Pending(file, l)
     \/ process[p].at \in Holding /\ Pending(process[p].state, l)

\* A later tick may find the leg due.
Risk(l) ==
  \/ \E p \in Processes : Stale(p, l)
  \/ Pending(file, l) /\ \A p \in Processes : ~ Covers(p, l)

Holders(l) == {p \in Processes : process[p].at = "submit" /\ l \in process[p].todo}

\* The exits of the leg and those about to be made.
Load(l) == Cardinality(Burned(l)) + Cardinality(Holders(l))

\* An exit, a tick that is about to make one and the chance that a later tick
\* does: there is one of them, but for what went wrong.
Chance(l) == IF Risk(l) THEN 1 ELSE 0

LegBound(l) == Load(l) + Chance(l) <= 1 + faults + overlaps

\* No leg is burned that nobody asked for.
Asked == \A tx \in DOMAIN exits : request[exits[tx].leg[1]] # NoRequest

BurnInv ==
  /\ faults \in Nat /\ overlaps \in Nat
  /\ Asked /\ \A l \in Legs : LegBound(l)

LEMMA LoadType ==
  ASSUME CopiesInv, NEW l
  PROVE  /\ IsFiniteSet(Burned(l)) /\ IsFiniteSet(Holders(l))
         /\ Cardinality(Burned(l)) \in Nat /\ Cardinality(Holders(l)) \in Nat
<1>1. IsFiniteSet(DOMAIN exits)
  <2>1. Len(exits) \in Nat /\ DOMAIN exits = 1..Len(exits)
    BY DEF CopiesInv, Shape
  <2> QED BY <2>1, FS_Interval
<1>2. IsFiniteSet(Processes)
  BY ScheduleConstants, FS_Interval DEF Processes
<1>3. IsFiniteSet(Burned(l)) /\ IsFiniteSet(Holders(l))
  BY <1>1, <1>2, FS_Subset DEF Burned, Holders
<1> QED BY <1>3, FS_CardinalityType

\* One process moves: what it leaves behind is no riskier than what it was.
LEMMA RiskStep ==
  ASSUME NEW p \in Processes, NEW l,
         \A q \in Processes \ {p} : process'[q] = process[q],
         Pending(file, l)' => \/ Risk(l)
                              \/ Pending(file, l) /\ (Covers(p, l) => Covers(p, l)'),
         Stale(p, l)' => Risk(l)
  PROVE  Risk(l)' => Risk(l)
<1>1. \A q \in Processes \ {p} : Covers(q, l)' = Covers(q, l)
  BY DEF Covers
<1>2. ASSUME NEW q \in Processes \ {p}, Stale(q, l)'
      PROVE  Risk(l)
  <2>1. ~ Covers(q, l) /\ process'[q] = process[q]
    BY <1>1, <1>2 DEF Stale
  <2>2. CASE process[q].at \in Holding /\ Pending(process[q].state, l)
    BY <2>1, <2>2 DEF Stale, Risk
  <2>3. CASE process[q].at \in {"submit", "reload"} /\ Pending(file, l)'
    BY <2>1, <2>3 DEF Stale, Risk
  <2>4. Pending(process[q].state, l)' = Pending(process[q].state, l)
    BY <2>1 DEF Pending
  <2> QED BY <1>2, <2>1, <2>2, <2>3, <2>4 DEF Stale
<1>3. ASSUME Pending(file, l)', \A q \in Processes : ~ Covers(q, l)'
      PROVE  Risk(l)
  BY <1>1, <1>3 DEF Risk
<1> QED BY <1>2, <1>3 DEF Risk

LEMMA Chances ==
  ASSUME NEW l
  PROVE  /\ Chance(l) \in 0..1 /\ Chance(l)' \in 0..1
         /\ (Risk(l)' => Risk(l)) => Chance(l)' <= Chance(l)
         /\ Risk(l) => Chance(l) = 1
         /\ ~ Risk(l) => Chance(l) = 0
         /\ ~ Risk(l)' => Chance(l)' = 0
BY DEF Chance

\* A leg that gains no exit and no holder.
LEMMA SameLoad ==
  ASSUME CopiesInv, NEW p \in Processes, NEW l,
         \A q \in Processes \ {p} : process'[q] = process[q],
         Burned(l)' = Burned(l), p \in Holders(l)' => p \in Holders(l)
  PROVE  Load(l)' \in Nat /\ Load(l)' <= Load(l)
<1>1. Holders(l)' \subseteq Holders(l)
  BY DEF Holders
<1>2. /\ IsFiniteSet(Holders(l)) /\ Cardinality(Burned(l)) \in Nat
      /\ Cardinality(Holders(l)) \in Nat
  BY LoadType
<1>3. Cardinality(Holders(l)') <= Cardinality(Holders(l)) /\ Cardinality(Holders(l)') \in Nat
  BY <1>1, <1>2, FS_Subset, FS_CardinalityType
<1> QED BY <1>2, <1>3 DEF Load

\* A holder that makes an exit, or may have.
LEMMA MovedLoad ==
  ASSUME CopiesInv, NEW p \in Processes, NEW l, NEW n,
         \A q \in Processes \ {p} : process'[q] = process[q],
         Burned(l)' \in {Burned(l), Burned(l) \cup {n}},
         p \in Holders(l), p \notin Holders(l)'
  PROVE  Load(l)' \in Nat /\ Load(l)' <= Load(l)
<1>1. Holders(l)' = Holders(l) \ {p}
  BY DEF Holders
<1>2. /\ IsFiniteSet(Holders(l)) /\ Cardinality(Burned(l)) \in Nat
      /\ Cardinality(Holders(l)) \in Nat /\ IsFiniteSet(Burned(l))
  BY LoadType
<1>3. Cardinality(Holders(l)') = Cardinality(Holders(l)) - 1 /\ IsFiniteSet(Holders(l)')
  BY <1>1, <1>2, FS_RemoveElement
<1>4. /\ Cardinality(Burned(l)') <= Cardinality(Burned(l)) + 1
      /\ Cardinality(Burned(l)') \in Nat
  <2>1. CASE Burned(l)' = Burned(l)
    BY <1>2, <2>1
  <2>2. CASE Burned(l)' = Burned(l) \cup {n}
    <3>1. /\ IsFiniteSet(Burned(l)')
          /\ Cardinality(Burned(l)') = IF n \in Burned(l) THEN Cardinality(Burned(l))
                                       ELSE Cardinality(Burned(l)) + 1
      BY <1>2, <2>2, FS_AddElement
    <3> QED BY <1>2, <3>1, FS_CardinalityType
  <2> QED BY <2>1, <2>2
<1>5. Cardinality(Holders(l)') \in Nat
  BY <1>3, FS_CardinalityType
<1> QED BY <1>2, <1>3, <1>4, <1>5 DEF Load

\* The bound is kept by a step that is no riskier, or of which something went
\* wrong.
LEMMA BoundStep ==
  ASSUME CopiesInv, BurnInv, NEW l \in Legs, Load(l)' \in Nat, Load(l)' <= Load(l),
         faults' \in Nat, overlaps' \in Nat,
         \/ faults' + overlaps' = faults + overlaps /\ Chance(l)' <= Chance(l)
         \/ faults' + overlaps' = faults + overlaps + 1
  PROVE  LegBound(l)'
<1>1. Load(l) \in Nat
  BY LoadType DEF Load
<1>2. LegBound(l) /\ faults \in Nat /\ overlaps \in Nat
  BY DEF BurnInv
<1>3. Chance(l) \in 0..1 /\ Chance(l)' \in 0..1
  BY Chances
<1>4. Load(l) + Chance(l) <= 1 + faults + overlaps
  BY <1>2 DEF LegBound
<1>5. Load(l)' + Chance(l)' <= 1 + faults' + overlaps'
  <2> DEFINE a == Load(l) b == Load(l)' c == Chance(l) d == Chance(l)'
             f == faults g == faults' o == overlaps h == overlaps'
  <2>1. /\ a \in Nat /\ b \in Nat /\ c \in 0..1 /\ d \in 0..1
        /\ f \in Nat /\ g \in Nat /\ o \in Nat /\ h \in Nat
        /\ b <= a /\ a + c <= 1 + f + o
        /\ (g + h = f + o /\ d <= c) \/ g + h = f + o + 1
    BY <1>1, <1>2, <1>3, <1>4
  <2> HIDE DEF a, b, c, d, f, g, o, h
  <2>2. b + d <= 1 + g + h
    BY <2>1
  <2> QED BY <2>2 DEF b, d, g, h
<1> QED BY <1>5 DEF LegBound

\* The exit of a tick is one more of the leg it is for, and of no other.
LEMMA NewExit ==
  ASSUME CopiesInv, NEW p \in Processes, process[p].at = "submit", process[p].todo # {},
         ExitOnL2(p), UNCHANGED request, Asked
  PROVE  /\ Asked'
         /\ \A l : IF l = NextLeg(p) THEN Burned(l)' = Burned(l) \cup {Len(exits) + 1}
                  ELSE Burned(l)' = Burned(l)
<1> DEFINE e == [leg |-> NextLeg(p), amount |-> HeldLeg(p).amount,
                 isPrivate |-> HeldLeg(p).isPrivate, paid |-> FALSE]
<1>1. exits' = Append(exits, e) /\ e.leg = NextLeg(p)
  BY DEF ExitOnL2, legPrivate
<1>2. exits \in Seq(ExitRecords) /\ request' = request
  BY DEF CopiesInv, Shape
<1> HIDE DEF e
<1>3. /\ DOMAIN exits' = DOMAIN exits \cup {Len(exits) + 1}
      /\ Len(exits) + 1 \notin DOMAIN exits
      /\ exits'[Len(exits) + 1] = e
      /\ \A tx \in DOMAIN exits : exits'[tx] = exits[tx]
  BY <1>1, <1>2
<1>4. /\ \A l : e.leg = l => Burned(l)' = Burned(l) \cup {Len(exits) + 1}
      /\ \A l : e.leg # l => Burned(l)' = Burned(l)
  BY <1>3 DEF Burned
<1>5. request[NextLeg(p)[1]] # NoRequest
  <2>1. /\ NextLeg(p) \in process[p].todo /\ NextLeg(p) \in Legs
    BY HeldLegFields
  <2>2. process[p].state[NextLeg(p)].status = "pending"
    BY <2>1 DEF CopiesInv, TodoFits
  <2> QED BY <2>1, <2>2 DEF CopiesInv, SoundFor
<1>6. Asked'
  BY <1>1, <1>2, <1>3, <1>5 DEF Asked
<1> QED BY <1>1, <1>4, <1>6

\* Paying an exit makes none.
LEMMA PaidExit ==
  ASSUME exits \in Seq(ExitRecords), NEW tx \in DOMAIN exits, Pay(tx)
  PROVE  (\A l : Burned(l)' = Burned(l)) /\ (Asked /\ UNCHANGED request => Asked')
<1>1. exits' = [exits EXCEPT ![tx] = [exits[tx] EXCEPT !.paid = TRUE]]
  BY DEF Pay
<1>2. exits[tx] \in ExitRecords
  OBVIOUS
<1>3. [exits[tx] EXCEPT !.paid = TRUE].leg = exits[tx].leg
  BY <1>2 DEF ExitRecords
<1>4. DOMAIN exits' = DOMAIN exits /\ \A x \in DOMAIN exits : exits'[x].leg = exits[x].leg
  BY <1>1, <1>3
<1> QED BY <1>4 DEF Burned, Asked

\* A step that moves one process and burns nothing, whose faults are counted.
LEMMA QuietMove ==
  ASSUME CopiesInv, BurnInv, NEW p \in Processes,
         \A q \in Processes \ {p} : process'[q] = process[q],
         \A l \in Legs : Burned(l)' = Burned(l),
         \A l \in Legs : p \in Holders(l)' => p \in Holders(l), Asked',
         faults' \in Nat, overlaps' \in Nat,
         \/ faults' + overlaps' = faults + overlaps /\ \A l \in Legs : Risk(l)' => Risk(l)
         \/ faults' + overlaps' = faults + overlaps + 1
  PROVE  BurnInv'
<1>1. ASSUME NEW l \in Legs PROVE LegBound(l)'
  <2>1. Load(l)' \in Nat /\ Load(l)' <= Load(l)
    BY SameLoad
  <2>2. CASE faults' + overlaps' = faults + overlaps /\ \A x \in Legs : Risk(x)' => Risk(x)
    <3>1. Risk(l)' => Risk(l)
      BY <2>2
    <3>2. Chance(l)' <= Chance(l)
      BY <3>1, Chances
    <3> QED BY <2>1, <2>2, <3>2, BoundStep
  <2>3. CASE faults' + overlaps' = faults + overlaps + 1
    BY <2>1, <2>3, BoundStep
  <2> QED BY <2>2, <2>3
<1> QED BY <1>1 DEF BurnInv

LEMMA BurnSubmit ==
  ASSUME CopiesInv, BurnInv, NEW p \in Processes, submitLeg(p)
  PROVE  BurnInv'
<1> DEFINE leg == [HeldLeg(p) EXCEPT !.status = "submitted", !.l2TxHash = Len(exits')]
           c == Changed(p, leg)
           t == [c EXCEPT !.changed = TRUE]
<1>1. /\ process[p].at = "submit" /\ process[p].todo # {} /\ ExitOnL2(p)
      /\ UNCHANGED <<file, request, faults, overlaps>> /\ process' = [process EXCEPT ![p] = t]
  BY DEF submitLeg, At, NoFault
<1>2. process'[p] = t /\ \A q \in Processes \ {p} : process'[q] = process[q]
  BY <1>1 DEF CopiesInv, Shape
<1>3. leg \in Entries /\ leg.status = "submitted"
  <2> DEFINE n == Len(exits')
             was == HeldLeg(p)
  <2>1. n \in Nat /\ was \in Entries
    BY <1>1, ExitIsTheLegs, HeldLegFields
  <2> HIDE DEF n, was
  <2>2. LET x == [was EXCEPT !.status = "submitted", !.l2TxHash = n]
        IN x \in Entries /\ x.status = "submitted"
    BY <2>1 DEF Entries, Statuses
  <2> QED BY <2>2 DEF n, was
<1> HIDE DEF leg
<1>4. /\ c \in Ticks /\ c.at = "submit" /\ c.todo = process[p].todo \ {NextLeg(p)}
      /\ \A x \in Legs : c.state[x] = IF x = NextLeg(p) THEN leg ELSE process[p].state[x]
  <2>1. process[p] \in Ticks
    BY <1>1, HeldLegFields
  <2>2. c.todo = process[p].todo \ {NextLeg(p)}
    BY <2>1 DEF Changed, Ticks
  <2> QED BY <1>1, <1>3, <2>2, ChangedFields
<1> HIDE DEF c
<1>5. t.at = "submit" /\ t.todo = c.todo /\ t.state = c.state /\ t.changed = TRUE
  BY <1>4 DEF Ticks
<1> HIDE DEF t
<1>6. /\ NextLeg(p) \in process[p].todo /\ NextLeg(p) \in Legs
  BY <1>1, HeldLegFields
<1>7. /\ Asked'
      /\ \A l : IF l = NextLeg(p) THEN Burned(l)' = Burned(l) \cup {Len(exits) + 1}
               ELSE Burned(l)' = Burned(l)
  BY <1>1, NewExit DEF BurnInv
<1>8. ASSUME NEW l \in Legs PROVE LegBound(l)'
  <2>1. Covers(p, l) => Covers(p, l)'
    BY <1>1, <1>2, <1>3, <1>4, <1>5 DEF Covers
  <2>2. Pending(file, l)' = Pending(file, l)
    BY <1>1 DEF Pending
  <2>3. Stale(p, l)' => Stale(p, l)
    <3>1. CASE l = NextLeg(p)
      BY <1>1, <1>2, <1>6, <2>1, <3>1 DEF Stale, Covers
    <3>2. CASE l # NextLeg(p)
      BY <1>1, <1>2, <1>4, <1>5, <2>1, <2>2, <3>2 DEF Stale, Pending
    <3> QED BY <3>1, <3>2
  <2>4. Stale(p, l)' => Risk(l)
    BY <2>3 DEF Risk
  <2>5. Risk(l)' => Risk(l)
    BY <1>2, <2>1, <2>2, <2>4, RiskStep
  <2>6. Load(l)' \in Nat /\ Load(l)' <= Load(l)
    <3>1. CASE l = NextLeg(p)
      <4>1. p \in Holders(l) /\ p \notin Holders(l)'
        BY <1>1, <1>2, <1>4, <1>5, <1>6, <3>1 DEF Holders
      <4>2. Burned(l)' \in {Burned(l), Burned(l) \cup {Len(exits) + 1}}
        BY <1>7, <3>1
      <4> QED BY <1>2, <4>1, <4>2, MovedLoad
    <3>2. CASE l # NextLeg(p)
      <4>1. p \in Holders(l)' => p \in Holders(l)
        BY <1>1, <1>2, <1>4, <1>5 DEF Holders
      <4>2. Burned(l)' = Burned(l)
        BY <1>7, <3>2
      <4> QED BY <1>2, <4>1, <4>2, SameLoad
    <3> QED BY <3>1, <3>2
  <2>7. Chance(l)' <= Chance(l)
    BY <2>5, Chances
  <2>8. /\ faults' \in Nat /\ overlaps' \in Nat
        /\ faults' + overlaps' = faults + overlaps
    BY <1>1 DEF BurnInv
  <2> QED BY <2>6, <2>7, <2>8, BoundStep
<1> QED BY <1>1, <1>7, <1>8 DEF BurnInv

\* What a tick that leaves a leg as it was becomes.
LEMMA SkipFields ==
  ASSUME CopiesInv, NEW p \in Processes, process[p].todo # {}, SkipLeg(p)
  PROVE  /\ process'[p].at = process[p].at /\ process'[p].state = process[p].state
         /\ process'[p].changed = process[p].changed
         /\ process'[p].todo = process[p].todo \ {NextLeg(p)}
         /\ \A q \in Processes \ {p} : process'[q] = process[q]
<1> DEFINE t == [process[p] EXCEPT !.todo = @ \ {NextLeg(p)}]
<1>1. process' = [process EXCEPT ![p] = t]
  BY DEF SkipLeg
<1>2. process'[p] = t /\ \A q \in Processes \ {p} : process'[q] = process[q]
  BY <1>1 DEF CopiesInv, Shape
<1>3. process[p] \in Ticks
  BY HeldLegFields
<1>4. /\ t.at = process[p].at /\ t.state = process[p].state /\ t.changed = process[p].changed
      /\ t.todo = process[p].todo \ {NextLeg(p)}
  BY <1>3 DEF Ticks
<1> HIDE DEF t
<1> QED BY <1>2, <1>4

LEMMA BurnSubmitFails ==
  ASSUME CopiesInv, BurnInv, NEW p \in Processes, submitFails(p)
  PROVE  BurnInv'
<1>1. /\ process[p].at = "submit" /\ process[p].todo # {} /\ SkipLeg(p)
      /\ UNCHANGED <<request, overlaps>> /\ faults' = faults + 1
      /\ ExitOnL2(p) \/ UNCHANGED exits
  BY DEF submitFails, At, Fault
<1>2. /\ process'[p].at = "submit" /\ process'[p].todo = process[p].todo \ {NextLeg(p)}
      /\ \A q \in Processes \ {p} : process'[q] = process[q]
  BY <1>1, SkipFields
<1>3. NextLeg(p) \in process[p].todo
  BY <1>1, HeldLegFields
<1>4. /\ Asked'
      /\ \A l : l # NextLeg(p) => Burned(l)' = Burned(l)
      /\ \A l : l = NextLeg(p) => Burned(l)' \in {Burned(l), Burned(l) \cup {Len(exits) + 1}}
  <2>1. CASE ExitOnL2(p)
    BY <1>1, <2>1, NewExit DEF BurnInv
  <2>2. CASE UNCHANGED exits
    BY <1>1, <2>2 DEF BurnInv, Asked, Burned
  <2> QED BY <1>1, <2>1, <2>2
<1>5. ASSUME NEW l \in Legs PROVE LegBound(l)'
  <2>1. Load(l)' \in Nat /\ Load(l)' <= Load(l)
    <3>1. CASE l = NextLeg(p)
      <4>1. p \in Holders(l) /\ p \notin Holders(l)'
        BY <1>1, <1>2, <1>3, <3>1 DEF Holders
      <4>2. Burned(l)' \in {Burned(l), Burned(l) \cup {Len(exits) + 1}}
        BY <1>4, <3>1
      <4> QED BY <1>2, <4>1, <4>2, MovedLoad
    <3>2. CASE l # NextLeg(p)
      <4>1. p \in Holders(l)' => p \in Holders(l)
        BY <1>1, <1>2 DEF Holders
      <4>2. Burned(l)' = Burned(l)
        BY <1>4, <3>2
      <4> QED BY <1>2, <4>1, <4>2, SameLoad
    <3> QED BY <3>1, <3>2
  <2>2. /\ faults' \in Nat /\ overlaps' \in Nat
        /\ faults' + overlaps' = faults + overlaps + 1
    BY <1>1 DEF BurnInv
  <2> QED BY <2>1, <2>2, BoundStep
<1> QED BY <1>1, <1>4, <1>5 DEF BurnInv

\* A tick that has nothing to write leaves the file to the next.
LEMMA BurnEndTick ==
  ASSUME CopiesInv, BurnInv, NEW p \in Processes, endTick(p)
  PROVE  BurnInv'
<1>1. /\ process[p].at = "submit" /\ process[p].todo = {} /\ ~ process[p].changed
      /\ process' = [process EXCEPT ![p] = Rest(p)]
      /\ UNCHANGED <<file, exits, request, faults, overlaps>>
  BY DEF endTick, NoFault
<1>2. process'[p] = Rest(p) /\ \A q \in Processes \ {p} : process'[q] = process[q]
  BY <1>1 DEF CopiesInv, Shape
<1>3. process'[p].at \in {"reload", "idle"}
  BY <1>2, RestHoldsNothing
<1>4. \A l \in Legs : Burned(l)' = Burned(l) /\ (p \in Holders(l)' => p \in Holders(l))
  BY <1>1, <1>3 DEF Burned, Holders
<1>5. ASSUME NEW l \in Legs PROVE Risk(l)' => Risk(l)
  <2>1. ~ Covers(p, l)
    BY <1>1 DEF Covers
  <2>2. Pending(file, l)' = Pending(file, l)
    BY <1>1 DEF Pending
  <2>3. Stale(p, l)' => Stale(p, l)
    BY <1>1, <1>3, <2>1, <2>2 DEF Stale, Holding
  <2>4. Stale(p, l)' => Risk(l)
    BY <2>3 DEF Risk
  <2> QED BY <1>2, <2>1, <2>2, <2>4, RiskStep
<1>6. Asked' /\ faults' \in Nat /\ overlaps' \in Nat /\ faults' + overlaps' = faults + overlaps
  BY <1>1 DEF BurnInv, Asked
<1> QED BY <1>2, <1>4, <1>5, <1>6, QuietMove

\* Opening the file changes no copy.
LEMMA BurnOpenFile ==
  ASSUME CopiesInv, BurnInv, NEW p \in Processes, openFile(p)
  PROVE  BurnInv'
<1> DEFINE t == [process[p] EXCEPT !.at = "write"]
<1>1. /\ process[p].at \in {"submit", "claim"} /\ process[p].todo = {}
      /\ process' = [process EXCEPT ![p] = t]
      /\ UNCHANGED <<file, exits, request, faults, overlaps>>
  BY DEF openFile, Saves, NoFault
<1>2. process'[p] = t /\ \A q \in Processes \ {p} : process'[q] = process[q]
  BY <1>1 DEF CopiesInv, Shape
<1>3. t.at = "write" /\ t.state = process[p].state /\ t.changed = process[p].changed
  BY DEF CopiesInv, Shape, Ticks
<1> HIDE DEF t
<1>4. \A l \in Legs : Burned(l)' = Burned(l) /\ (p \in Holders(l)' => p \in Holders(l))
  BY <1>1, <1>2, <1>3 DEF Burned, Holders
<1>5. ASSUME NEW l \in Legs PROVE Risk(l)' => Risk(l)
  <2>1. Covers(p, l) => Covers(p, l)'
    BY <1>1, <1>2, <1>3 DEF Covers
  <2>2. Pending(file, l)' = Pending(file, l)
    BY <1>1 DEF Pending
  <2>3. Stale(p, l)' => Stale(p, l)
    BY <1>1, <1>2, <1>3, <2>1 DEF Stale, Pending, Holding
  <2>4. Stale(p, l)' => Risk(l)
    BY <2>3 DEF Risk
  <2> QED BY <1>2, <2>1, <2>2, <2>4, RiskStep
<1>6. Asked' /\ faults' \in Nat /\ overlaps' \in Nat /\ faults' + overlaps' = faults + overlaps
  BY <1>1 DEF BurnInv, Asked
<1> QED BY <1>2, <1>4, <1>5, <1>6, QuietMove

\* A command that writes leaves a leg pending only where its copy was stale.
LEMMA BurnWriteFile ==
  ASSUME CopiesInv, BurnInv, NEW p \in Processes, writeFile(p)
  PROVE  BurnInv'
<1>1. /\ process[p].at = "write" /\ process' = [process EXCEPT ![p] = Rest(p)]
      /\ file' = process[p].state /\ UNCHANGED <<exits, request, faults, overlaps>>
  BY DEF writeFile, NoFault
<1>2. process'[p] = Rest(p) /\ \A q \in Processes \ {p} : process'[q] = process[q]
  BY <1>1 DEF CopiesInv, Shape
<1>3. process'[p].at \in {"reload", "idle"}
  BY <1>2, RestHoldsNothing
<1>4. \A l \in Legs : Burned(l)' = Burned(l) /\ (p \in Holders(l)' => p \in Holders(l))
  BY <1>1, <1>3 DEF Burned, Holders
<1>5. ASSUME NEW l \in Legs PROVE Risk(l)' => Risk(l)
  <2>1. Pending(file, l)' => Pending(process[p].state, l)
    BY <1>1 DEF Pending
  <2>2. Pending(process[p].state, l) => Stale(p, l)
    BY <1>1 DEF Stale, Covers, Pending, Holding
  <2>3. Pending(file, l)' => Risk(l)
    BY <2>1, <2>2 DEF Risk
  <2>4. Stale(p, l)' => Pending(file, l)'
    BY <1>3 DEF Stale, Holding
  <2>5. Stale(p, l)' => Risk(l)
    BY <2>3, <2>4
  <2> QED BY <1>2, <2>3, <2>5, RiskStep
<1>6. Asked' /\ faults' \in Nat /\ overlaps' \in Nat /\ faults' + overlaps' = faults + overlaps
  BY <1>1 DEF BurnInv, Asked
<1> QED BY <1>2, <1>4, <1>5, <1>6, QuietMove

LEMMA BurnStartClaims ==
  ASSUME CopiesInv, BurnInv, NEW p \in Processes, startClaims(p)
  PROVE  BurnInv'
<1> DEFINE legs == {l \in Legs : file[l].status = "submitted"}
           t == [process[p] EXCEPT !.at = "claim", !.state = file, !.todo = legs]
<1>1. /\ process[p].at = "reload" /\ process' = [process EXCEPT ![p] = t]
      /\ UNCHANGED <<file, exits, request, faults, overlaps>>
  BY DEF startClaims, NoFault
<1>2. process'[p] = t /\ \A q \in Processes \ {p} : process'[q] = process[q]
  BY <1>1 DEF CopiesInv, Shape
<1>3. t.at = "claim" /\ t.state = file
  BY DEF CopiesInv, Shape, Ticks
<1> HIDE DEF t
<1>4. \A l \in Legs : Burned(l)' = Burned(l) /\ (p \in Holders(l)' => p \in Holders(l))
  BY <1>1, <1>2, <1>3 DEF Burned, Holders
<1>5. ASSUME NEW l \in Legs PROVE Risk(l)' => Risk(l)
  <2>1. ~ Covers(p, l)
    BY <1>1 DEF Covers
  <2>2. Pending(file, l)' = Pending(file, l)
    BY <1>1 DEF Pending
  <2>3. Stale(p, l)' => Stale(p, l)
    BY <1>1, <1>2, <1>3, <2>1 DEF Stale, Pending, Holding
  <2>4. Stale(p, l)' => Risk(l)
    BY <2>3 DEF Risk
  <2> QED BY <1>2, <2>1, <2>2, <2>4, RiskStep
<1>6. Asked' /\ faults' \in Nat /\ overlaps' \in Nat /\ faults' + overlaps' = faults + overlaps
  BY <1>1 DEF BurnInv, Asked
<1> QED BY <1>2, <1>4, <1>5, <1>6, QuietMove

\* The withdrawals of the auto-claim burn nothing and make no leg pending.
LEMMA BurnClaims ==
  ASSUME CopiesInv, BurnInv, NEW p \in Processes,
         claimLeg(p) \/ claimFails(p) \/ claimThrows(p)
  PROVE  BurnInv'
<1>1. /\ process[p].at = "claim" /\ process[p].todo # {} /\ At(p, "claim")
      /\ UNCHANGED <<file, request, overlaps>>
      /\ faults' = faults \/ faults' = faults + 1
      /\ Pay(HeldLeg(p).l2TxHash) \/ UNCHANGED exits
  BY DEF claimLeg, claimFails, claimThrows, At, NoFault, Fault
<1>2. /\ process'[p].at = "claim"
      /\ \A l \in Legs : Pending(process[p].state, l)' => Pending(process[p].state, l)
      /\ \A q \in Processes \ {p} : process'[q] = process[q]
  <2>1. CASE claimFails(p) \/ claimThrows(p)
    <3>1. SkipLeg(p)
      BY <2>1 DEF claimFails, claimThrows, LeaveSubmitted
    <3> QED BY <1>1, <3>1, SkipFields DEF Pending
  <2>2. CASE claimLeg(p)
    <3> DEFINE leg == [HeldLeg(p) EXCEPT !.status = "done"]
               c == Changed(p, leg)
    <3>1. process' = [process EXCEPT ![p] = c]
      BY <2>2 DEF claimLeg, MarkDone
    <3>2. process'[p] = c /\ \A q \in Processes \ {p} : process'[q] = process[q]
      BY <3>1 DEF CopiesInv, Shape
    <3>3. leg \in Entries /\ leg.status = "done"
      BY <1>1, HeldLegFields DEF Entries, Statuses
    <3> HIDE DEF leg
    <3>4. /\ c.at = process[p].at
          /\ \A x \in Legs : c.state[x] = IF x = NextLeg(p) THEN leg ELSE process[p].state[x]
      BY <1>1, <3>3, ChangedFields
    <3> HIDE DEF c
    <3> QED BY <1>1, <3>2, <3>3, <3>4 DEF Pending
  <2> QED BY <2>1, <2>2
<1>3. Asked' /\ \A l \in Legs : Burned(l)' = Burned(l)
  <2>1. CASE Pay(HeldLeg(p).l2TxHash)
    <3>1. HeldLeg(p).l2TxHash \in DOMAIN exits /\ exits \in Seq(ExitRecords)
      BY <1>1, <2>1, ClaimPays DEF CopiesInv, Shape
    <3> QED BY <1>1, <2>1, <3>1, PaidExit DEF BurnInv
  <2>2. CASE UNCHANGED exits
    BY <1>1, <2>2 DEF BurnInv, Asked, Burned
  <2> QED BY <1>1, <2>1, <2>2
<1>4. \A l \in Legs : p \in Holders(l)' => p \in Holders(l)
  BY <1>2 DEF Holders
<1>5. ASSUME NEW l \in Legs PROVE Risk(l)' => Risk(l)
  <2>1. ~ Covers(p, l)
    BY <1>1 DEF Covers
  <2>2. Pending(file, l)' = Pending(file, l)
    BY <1>1 DEF Pending
  <2>3. Stale(p, l)' => Stale(p, l)
    BY <1>1, <1>2, <2>1 DEF Stale, Holding
  <2>4. Stale(p, l)' => Risk(l)
    BY <2>3 DEF Risk
  <2> QED BY <1>2, <2>1, <2>2, <2>4, RiskStep
<1>6. /\ faults' \in Nat /\ overlaps' \in Nat
      /\ faults' + overlaps' \in {faults + overlaps, faults + overlaps + 1}
  BY <1>1 DEF BurnInv
<1> QED BY <1>2, <1>3, <1>4, <1>5, <1>6, QuietMove

\* A command that cannot read the file stops; a killed one counts.
LEMMA BurnStop ==
  ASSUME CopiesInv, BurnInv, NEW p \in Processes, loadThrows(p) \/ killed(p)
  PROVE  BurnInv'
<1>1. /\ process' = [process EXCEPT ![p] = Idle]
      /\ UNCHANGED <<file, exits, request, overlaps>>
      /\ \/ process[p].at \in {"idle", "reload"} /\ faults' = faults
         \/ faults' = faults + 1
  BY DEF loadThrows, killed, NoFault, Fault
<1>2. /\ process'[p].at = "idle"
      /\ \A q \in Processes \ {p} : process'[q] = process[q]
  BY <1>1, EmptyCopy DEF CopiesInv, Shape
<1>3. \A l \in Legs : Burned(l)' = Burned(l) /\ (p \in Holders(l)' => p \in Holders(l))
  BY <1>1, <1>2 DEF Burned, Holders
<1>4. ASSUME process[p].at \in {"idle", "reload"}, NEW l \in Legs
      PROVE  Risk(l)' => Risk(l)
  <2>1. ~ Covers(p, l)
    BY <1>4 DEF Covers
  <2>2. Pending(file, l)' = Pending(file, l)
    BY <1>1 DEF Pending
  <2>3. ~ Stale(p, l)'
    BY <1>2 DEF Stale, Holding
  <2> QED BY <1>2, <2>1, <2>2, <2>3, RiskStep
<1>5. /\ faults' \in Nat /\ overlaps' \in Nat /\ Asked'
      /\ \/ faults' + overlaps' = faults + overlaps /\ \A l \in Legs : Risk(l)' => Risk(l)
         \/ faults' + overlaps' = faults + overlaps + 1
  <2>1. faults' \in Nat /\ overlaps' \in Nat /\ Asked'
    BY <1>1 DEF BurnInv, Asked
  <2>2. CASE faults' = faults + 1
    BY <1>1, <2>1, <2>2 DEF BurnInv
  <2>3. CASE process[p].at \in {"idle", "reload"} /\ faults' = faults
    <3>1. faults' + overlaps' = faults + overlaps
      BY <1>1, <2>3
    <3> QED BY <1>4, <2>1, <2>3, <3>1
  <2> QED BY <1>1, <2>2, <2>3
<1> QED BY <1>2, <1>3, <1>5, QuietMove

\* A command that starts: beside another one, it counts.
LEMMA OverlapCounts ==
  ASSUME BurnInv, Overlap, UNCHANGED faults
  PROVE  /\ faults' \in Nat /\ overlaps' \in Nat
         /\ Running = {} => faults' + overlaps' = faults + overlaps
         /\ Running # {} => faults' + overlaps' = faults + overlaps + 1
BY DEF BurnInv, Overlap

\* A tick that finds the leg due: alone, it is the chance there was.
LEMMA HeldBound ==
  ASSUME CopiesInv, BurnInv, NEW l \in Legs, Load(l)' = Load(l) + 1,
         faults' \in Nat, overlaps' \in Nat,
         \/ /\ faults' + overlaps' = faults + overlaps
            /\ Chance(l) = 1 /\ Chance(l)' = 0
         \/ /\ faults' + overlaps' = faults + overlaps + 1
            /\ Chance(l)' <= Chance(l)
  PROVE  LegBound(l)'
<1>1. Load(l) \in Nat
  BY LoadType DEF Load
<1>2. LegBound(l) /\ faults \in Nat /\ overlaps \in Nat
  BY DEF BurnInv
<1>3. Chance(l) \in 0..1 /\ Chance(l)' \in 0..1
  BY Chances
<1>4. Load(l) + Chance(l) <= 1 + faults + overlaps
  BY <1>2 DEF LegBound
<1>5. Load(l)' + Chance(l)' <= 1 + faults' + overlaps'
  <2> DEFINE a == Load(l) b == Load(l)' c == Chance(l) d == Chance(l)'
             f == faults g == faults' o == overlaps h == overlaps'
  <2>1. /\ a \in Nat /\ c \in 0..1 /\ d \in 0..1
        /\ f \in Nat /\ g \in Nat /\ o \in Nat /\ h \in Nat
        /\ b = a + 1 /\ a + c <= 1 + f + o
        /\ (g + h = f + o /\ c = 1 /\ d = 0) \/ (g + h = f + o + 1 /\ d <= c)
    BY <1>1, <1>2, <1>3, <1>4
  <2> HIDE DEF a, b, c, d, f, g, o, h
  <2>2. b + d <= 1 + g + h
    BY <2>1
  <2> QED BY <2>2 DEF b, d, g, h
<1> QED BY <1>5 DEF LegBound

LEMMA BurnStartTick ==
  ASSUME CopiesInv, BurnInv, NEW p \in Processes, NEW autoClaim \in BOOLEAN,
         startTick(p, autoClaim)
  PROVE  BurnInv'
<1> DEFINE t == [at |-> "submit", autoClaim |-> autoClaim, state |-> file,
                 todo |-> Due(file), changed |-> FALSE]
<1>1. /\ process[p].at = "idle" /\ process' = [process EXCEPT ![p] = t] /\ Overlap
      /\ UNCHANGED <<file, exits, request, faults>>
  BY DEF startTick, Starts
<1>2. process'[p] = t /\ \A q \in Processes \ {p} : process'[q] = process[q]
  BY <1>1 DEF CopiesInv, Shape
<1>3. t.at = "submit" /\ t.state = file /\ t.todo = Due(file) /\ t.changed = FALSE
  OBVIOUS
<1> HIDE DEF t
<1>4. /\ faults' \in Nat /\ overlaps' \in Nat
      /\ Running = {} => faults' + overlaps' = faults + overlaps
      /\ Running # {} => faults' + overlaps' = faults + overlaps + 1
  BY <1>1, OverlapCounts
<1>5. Asked' /\ \A l : Burned(l)' = Burned(l)
  BY <1>1 DEF BurnInv, Asked, Burned
<1>6. Running = {} => \A q \in Processes : process[q].at = "idle"
  BY DEF Running
<1>7. ASSUME NEW l \in Legs PROVE LegBound(l)'
  <2>1. Pending(file, l)' = Pending(file, l) /\ ~ Covers(p, l)
    BY <1>1 DEF Pending, Covers
  <2>2. CASE l \in Due(file)
    <3>1. Covers(p, l)' /\ ~ Stale(p, l)'
      BY <1>2, <1>3, <2>2 DEF Covers, Stale
    <3>2. Load(l)' = Load(l) + 1
      <4>1. p \notin Holders(l) /\ Holders(l)' = Holders(l) \cup {p}
        BY <1>1, <1>2, <1>3, <2>2 DEF Holders
      <4>2. IsFiniteSet(Holders(l)) /\ Cardinality(Burned(l)) \in Nat
            /\ Cardinality(Holders(l)) \in Nat
        BY LoadType
      <4>3. Cardinality(Holders(l)') = Cardinality(Holders(l)) + 1
        BY <4>1, <4>2, FS_AddElement
      <4> QED BY <1>5, <4>2, <4>3 DEF Load
    <3>3. Risk(l)' => Risk(l)
      BY <1>2, <2>1, <3>1, RiskStep
    <3>4. Chance(l)' <= Chance(l)
      BY <3>3, Chances
    <3>5. Running = {} => Chance(l) = 1 /\ Chance(l)' = 0
      <4>1. ASSUME Running = {} PROVE Risk(l) /\ ~ Risk(l)'
        <5>1. \A q \in Processes : ~ Covers(q, l)
          BY <1>6, <4>1 DEF Covers
        <5>2. Pending(file, l)
          BY <2>2 DEF Due, Pending
        <5>3. \A q \in Processes \ {p} : ~ Stale(q, l)'
          BY <1>2, <1>6, <4>1 DEF Stale, Holding
        <5> QED BY <3>1, <5>1, <5>2, <5>3 DEF Risk
      <4> QED BY <4>1, Chances
    <3> QED BY <1>4, <3>2, <3>4, <3>5, HeldBound
  <2>3. CASE l \notin Due(file)
    <3>1. p \in Holders(l)' => p \in Holders(l)
      BY <1>2, <1>3, <2>3 DEF Holders
    <3>2. Load(l)' \in Nat /\ Load(l)' <= Load(l)
      BY <1>2, <1>5, <3>1, SameLoad
    <3>3. Running = {} => Chance(l)' <= Chance(l)
      <4>1. ASSUME Running = {} PROVE Risk(l)' => Risk(l)
        <5>1. \A q \in Processes : ~ Covers(q, l)
          BY <1>6, <4>1 DEF Covers
        <5>2. Stale(p, l)' => Pending(file, l)
          BY <1>1, <1>2, <1>3, <2>1 DEF Stale, Pending
        <5>3. Pending(file, l) => Risk(l)
          BY <5>1 DEF Risk
        <5>4. Stale(p, l)' => Risk(l)
          BY <5>2, <5>3
        <5> QED BY <1>2, <2>1, <5>4, RiskStep
      <4> QED BY <4>1, Chances
    <3> QED BY <1>4, <3>2, <3>3, BoundStep
  <2> QED BY <2>2, <2>3
<1> QED BY <1>4, <1>5, <1>7 DEF BurnInv

\* A plan is written once: until then none of its legs was burned, or held.
LEMMA BurnSchedule ==
  ASSUME CopiesInv, BurnInv, NEW p \in Processes, NEW plan \in Plans, NEW r \in Requests,
         schedule(p, plan, r)
  PROVE  BurnInv'
<1>1. /\ request[plan] = NoRequest /\ r # NoRequest
      /\ \A x \in Plans : request'[x] = IF x = plan THEN r ELSE request[x]
      /\ UNCHANGED <<file, exits, faults>> /\ Overlap
      /\ process[p].at = "idle" /\ process'[p].at = "submit" /\ process'[p].todo = {}
      /\ \A q \in Processes \ {p} : process'[q] = process[q]
      /\ process'[p].state = Planned(plan, r)
  BY ScheduleSteps
<1>2. /\ faults' \in Nat /\ overlaps' \in Nat
      /\ Running = {} => faults' + overlaps' = faults + overlaps
      /\ Running # {} => faults' + overlaps' = faults + overlaps + 1
  BY <1>1, OverlapCounts
<1>3. Running = {} => \A q \in Processes : process[q].at = "idle"
  BY DEF Running
<1>4. Asked'
  <2>1. \A tx \in DOMAIN exits : exits[tx].leg[1] \in Plans
    <3>1. \A tx \in DOMAIN exits : exits[tx] \in ExitRecords
      BY DEF CopiesInv, Shape
    <3>2. \A tx \in DOMAIN exits : exits[tx].leg \in Legs
      BY <3>1 DEF ExitRecords
    <3> QED BY <3>2 DEF Legs
  <2> QED BY <1>1, <2>1 DEF BurnInv, Asked
<1>5. ASSUME NEW l \in Legs PROVE LegBound(l)'
  <2>1. Burned(l)' = Burned(l) /\ (p \in Holders(l)' => p \in Holders(l))
    BY <1>1 DEF Burned, Holders
  <2>2. Load(l)' \in Nat /\ Load(l)' <= Load(l)
    BY <1>1, <2>1, SameLoad
  <2>3. CASE l[1] = plan
    <3>1. Burned(l) = {}
      BY <1>1, <2>3 DEF BurnInv, Asked, Burned
    <3>2. Holders(l) = {}
      <4>1. \A q \in Processes : process[q].state[l].status = "none"
        BY <1>1, <2>3 DEF CopiesInv, SoundFor
      <4> QED BY <4>1 DEF Holders, CopiesInv, TodoFits
    <3>3. Load(l)' = 0
      BY <2>2, <3>1, <3>2, FS_EmptySet DEF Load
    <3>4. Chance(l)' \in 0..1
      BY Chances
    <3> QED BY <1>2, <3>3, <3>4 DEF LegBound
  <2>4. CASE l[1] # plan
    <3>1. Running = {} => Chance(l)' <= Chance(l)
      <4>1. ASSUME Running = {} PROVE Risk(l)' => Risk(l)
        <5>1. \A q \in Processes : ~ Covers(q, l)
          BY <1>3, <4>1 DEF Covers
        <5>2. Pending(file, l)' = Pending(file, l)
          BY <1>1 DEF Pending
        <5>3. Planned(plan, r)[l] = file[l]
          BY <2>4, PlannedFields
        <5>4. Stale(p, l)' => Pending(file, l)
          BY <1>1, <5>2, <5>3 DEF Stale, Pending
        <5>5. Pending(file, l) => Risk(l)
          BY <5>1 DEF Risk
        <5>6. Stale(p, l)' => Risk(l)
          BY <5>4, <5>5
        <5> QED BY <1>1, <5>1, <5>2, <5>6, RiskStep
      <4> QED BY <4>1, Chances
    <3> QED BY <1>2, <2>2, <3>1, BoundStep
  <2> QED BY <2>3, <2>4
<1> QED BY <1>2, <1>4, <1>5 DEF BurnInv

\* What leaves the file and the ticks alone, and burns nothing.
LEMMA BurnElsewhere ==
  ASSUME CopiesInv, BurnInv, UNCHANGED <<file, process, request, faults>>,
         Asked', \A l : Burned(l)' = Burned(l), overlaps' = overlaps \/ Overlap
  PROVE  BurnInv'
<1>1. overlaps' \in Nat /\ overlaps' >= overlaps /\ faults' = faults /\ faults \in Nat
      /\ overlaps \in Nat
  BY DEF BurnInv, Overlap
<1>2. ASSUME NEW l \in Legs PROVE LegBound(l)'
  <2>1. Load(l)' = Load(l) /\ Load(l) \in Nat
    <3>1. Holders(l)' = Holders(l)
      BY DEF Holders
    <3> QED BY <3>1, LoadType DEF Load
  <2>2. Chance(l)' = Chance(l) /\ Chance(l) \in 0..1
    <3>1. Risk(l)' = Risk(l)
      BY DEF Risk, Stale, Covers, Pending
    <3> QED BY <3>1, Chances DEF Chance
  <2>3. Load(l) + Chance(l) <= 1 + faults + overlaps
    BY DEF BurnInv, LegBound
  <2>4. Load(l)' + Chance(l)' <= 1 + faults' + overlaps'
    <3> DEFINE a == Load(l) c == Chance(l) f == faults o == overlaps h == overlaps'
    <3>1. /\ a \in Nat /\ c \in 0..1 /\ f \in Nat /\ o \in Nat /\ h \in Nat
          /\ h >= o /\ a + c <= 1 + f + o
      BY <1>1, <2>1, <2>2, <2>3
    <3> HIDE DEF a, c, f, o, h
    <3>2. a + c <= 1 + f + h
      BY <3>1
    <3> QED BY <1>1, <2>1, <2>2, <3>2 DEF a, c, f, h
  <2> QED BY <2>4 DEF LegBound
<1> QED BY <1>1, <1>2 DEF BurnInv

LEMMA BurnNext ==
  ASSUME CopiesInv, BurnInv, [Next]_vars
  PROVE  BurnInv'
<1>1. ASSUME NEW p \in Processes, NEW plan \in Plans, NEW r \in Requests, schedule(p, plan, r)
      PROVE  BurnInv'
  BY <1>1, BurnSchedule
<1>2. ASSUME NEW p \in Processes, NEW autoClaim \in BOOLEAN, startTick(p, autoClaim)
      PROVE  BurnInv'
  BY <1>2, BurnStartTick
<1>3. ASSUME NEW p \in Processes,
             \/ submitLeg(p) \/ submitFails(p) \/ endTick(p) \/ openFile(p) \/ writeFile(p)
             \/ startClaims(p) \/ claimLeg(p) \/ claimFails(p) \/ claimThrows(p)
             \/ loadThrows(p) \/ killed(p)
      PROVE  BurnInv'
  BY <1>3, BurnSubmit, BurnSubmitFails, BurnEndTick, BurnOpenFile, BurnWriteFile,
     BurnStartClaims, BurnClaims, BurnStop
<1>4. ASSUME NEW tx \in DOMAIN exits, claimByHand(tx) PROVE BurnInv'
  <2>1. /\ Pay(tx) /\ Overlap /\ UNCHANGED <<file, process, request, faults>>
    BY <1>4 DEF claimByHand
  <2>2. exits \in Seq(ExitRecords) /\ Asked
    BY DEF CopiesInv, Shape, BurnInv
  <2>3. Asked' /\ \A l : Burned(l)' = Burned(l)
    BY <2>1, <2>2, PaidExit
  <2> QED BY <2>1, <2>3, BurnElsewhere
<1>5. CASE ProveExits \/ Tick \/ UNCHANGED vars
  <2>1. UNCHANGED <<file, process, exits, request, faults, overlaps>>
    BY <1>5 DEF ProveExits, Tick, vars, NoFault
  <2>2. Asked' /\ \A l : Burned(l)' = Burned(l)
    BY <2>1 DEF BurnInv, Asked, Burned
  <2> QED BY <2>1, <2>2, BurnElsewhere
<1> QED BY <1>1, <1>2, <1>3, <1>4, <1>5 DEF Next

LEMMA InitBurn == Init => BurnInv
<1> SUFFICES ASSUME Init PROVE BurnInv
  OBVIOUS
<1>1. /\ exits = <<>> /\ faults = 0 /\ overlaps = 0
      /\ \A q \in Processes : process[q].at = "idle"
      /\ \A l \in Legs : file[l].status = "none"
  BY EmptyCopy DEF Init, Unscheduled
<1>2. Asked /\ \A l : Burned(l) = {} /\ Holders(l) = {}
  BY <1>1 DEF Asked, Burned, Holders
<1>3. ASSUME NEW l \in Legs PROVE LegBound(l)
  <2>1. Load(l) = 0
    BY <1>2, FS_EmptySet DEF Load
  <2>2. Chance(l) \in 0..1
    BY Chances
  <2> QED BY <1>1, <2>1, <2>2 DEF LegBound
<1> QED BY <1>1, <1>2, <1>3 DEF BurnInv

\* Whatever overlaps, fails or is killed, a leg is burned once, and once more
\* at most for each of those (executeLeg, tick, saveBridgeState).
THEOREM ExtraExitsHaveACauseCorrect == Spec => []ExtraExitsHaveACause
<1>1. CopiesInv /\ BurnInv /\ [Next]_vars => BurnInv'
  BY BurnNext
<1>2. CopiesInv /\ BurnInv => ExtraExitsHaveACause
  <2> SUFFICES ASSUME CopiesInv, BurnInv, NEW l \in Legs
               PROVE  Cardinality(Burned(l)) <= 1 + faults + overlaps
    BY DEF ExtraExitsHaveACause
  <2>1. Cardinality(Burned(l)) \in Nat /\ Cardinality(Holders(l)) \in Nat
    BY LoadType
  <2>2. Cardinality(Burned(l)) + Cardinality(Holders(l)) + Chance(l) <= 1 + faults + overlaps
    BY DEF BurnInv, LegBound, Load
  <2>3. Chance(l) \in 0..1 /\ faults \in Nat /\ overlaps \in Nat
    BY Chances DEF BurnInv
  <2> DEFINE a == Cardinality(Burned(l)) b == Cardinality(Holders(l)) c == Chance(l)
  <2> HIDE DEF a, b, c
  <2>4. a \in Nat /\ b \in Nat /\ c \in 0..1 /\ a + b + c <= 1 + faults + overlaps
    BY <2>1, <2>2, <2>3 DEF a, b, c
  <2>5. a <= 1 + faults + overlaps
    BY <2>3, <2>4
  <2> QED BY <2>5 DEF a
<1> QED BY <1>1, <1>2, InitBurn, CopiesAreSound, PTL DEF Spec

-----------------------------------------------------------------------------
(* No part is negative                                                     *)

\* Upper bounds of the parts before the last, in hundredths of an even one.
Shares == [i \in 0..18 |-> 100 + IF noisePct(i) > 0 THEN noisePct(i) ELSE 0]

LEMMA SharesType ==
  \A i \in 0..18 : noisePct(i) \in -20..20 /\ Shares[i] \in Nat /\ Shares[i] >= 100 + noisePct(i)
BY DEF Shares, noisePct

LEMMA ShareValues ==
  /\ Shares[0] = 100 /\ Shares[1] = 117 /\ Shares[2] = 113 /\ Shares[3] = 109
  /\ Shares[4] = 105 /\ Shares[5] = 101 /\ Shares[6] = 100 /\ Shares[7] = 100
  /\ Shares[8] = 100 /\ Shares[9] = 100 /\ Shares[10] = 100 /\ Shares[11] = 118
  /\ Shares[12] = 114 /\ Shares[13] = 110 /\ Shares[14] = 106 /\ Shares[15] = 102
  /\ Shares[16] = 100 /\ Shares[17] = 100 /\ Shares[18] = 100
<1>1. /\ noisePct(0) = -20 /\ noisePct(1) = 17 /\ noisePct(2) = 13 /\ noisePct(3) = 9
      /\ noisePct(4) = 5 /\ noisePct(5) = 1 /\ noisePct(6) = -3
  BY DEF noisePct
<1>2. /\ noisePct(7) = -7 /\ noisePct(8) = -11 /\ noisePct(9) = -15 /\ noisePct(10) = -19
      /\ noisePct(11) = 18 /\ noisePct(12) = 14 /\ noisePct(13) = 10
  BY DEF noisePct
<1>3. /\ noisePct(14) = 6 /\ noisePct(15) = 2 /\ noisePct(16) = -2 /\ noisePct(17) = -6
      /\ noisePct(18) = -10
  BY DEF noisePct
<1> QED BY <1>1, <1>2, <1>3 DEF Shares

\* The noise of any number of parts adds less than one even part.
LEMMA NoiseIsLessThanAPart ==
  ASSUME NEW m \in 0..18
  PROVE  Sum(Shares, 0..m) <= 100 * (m + 2)
<1> DEFINE S(k) == Sum(Shares, 0..k)
<1>1. S(0) = 100
  <2>1. 0..0 = {} \cup {0} /\ IsFiniteSet({}) /\ IntOn(Shares, {} \cup {0})
    BY FS_EmptySet, SharesType DEF IntOn
  <2>2. Sum(Shares, {} \cup {0}) = Sum(Shares, {}) + Shares[0]
    BY <2>1, SumAdd
  <2> QED BY <2>1, <2>2, SumEmpty, ShareValues
<1>2. ASSUME NEW k \in 1..18 PROVE S(k) = S(k - 1) + Shares[k]
  <2>1. 0..k = (0..(k - 1)) \cup {k} /\ k \notin 0..(k - 1)
    OBVIOUS
  <2>0. IsFiniteSet(0..(k - 1))
    BY FS_Interval
  <2>2. IntOn(Shares, (0..(k - 1)) \cup {k})
    BY SharesType DEF IntOn
  <2> QED BY <2>0, <2>1, <2>2, SumAdd
<1> HIDE DEF S
<1>3. S(1) = 217 /\ S(2) = 330 /\ S(3) = 439 /\ S(4) = 544 /\ S(5) = 645
  BY <1>1, <1>2, ShareValues
<1>4. S(6) = 745 /\ S(7) = 845 /\ S(8) = 945 /\ S(9) = 1045 /\ S(10) = 1145
  BY <1>2, <1>3, ShareValues
<1>5. S(11) = 1263 /\ S(12) = 1377 /\ S(13) = 1487 /\ S(14) = 1593
  BY <1>2, <1>4, ShareValues
<1>6. S(15) = 1695 /\ S(16) = 1795 /\ S(17) = 1895 /\ S(18) = 1995
  BY <1>2, <1>5, ShareValues
<1>7. S(m) <= 100 * (m + 2)
  BY <1>1, <1>3, <1>4, <1>5, <1>6
<1> QED BY <1>7 DEF S

LEMMA ProductMonotone ==
  \A a \in Nat : \A x, y \in Int : x <= y => x * a <= y * a
OBVIOUS

\* A part is not negative, and not above its share (buildSplitSchedule).
LEMMA NoisyBounds ==
  ASSUME NEW total \in Nat, NEW i \in 0..18
  PROVE  /\ Noisy(total, SplitInto, i) \in Nat
         /\ Noisy(total, SplitInto, i) * 100 <= Shares[i] * (total \div SplitInto)
<1> DEFINE base == total \div SplitInto
           pct == noisePct(i)
           noise == base * pct
<1>1. base \in Nat
  BY ScheduleConstants
<1>2. pct \in -20..20 /\ Shares[i] \in Nat /\ Shares[i] >= 100 + pct
  BY SharesType
<1>3. noise = pct * base /\ noise \in Int
  BY <1>1, <1>2
<1>4. (-20) * base <= pct * base /\ (100 + pct) * base <= Shares[i] * base
  BY <1>1, <1>2, ProductMonotone
<1>5. Noisy(total, SplitInto, i) = base + Truncated(noise, 100)
  BY DEF Noisy
<1>6. (100 + pct) * base = 100 * base + pct * base
  BY <1>1, <1>2
<1> HIDE DEF base, pct
<1>7. 0 - 20 * base <= noise /\ 100 * base + noise <= Shares[i] * base
  BY <1>1, <1>3, <1>4, <1>6
<1> DEFINE top == Shares[i] * base
<1>8. top \in Int
  BY <1>1, <1>2
<1> HIDE DEF noise, top
<1>9. /\ Truncated(noise, 100) \in Int /\ base + Truncated(noise, 100) >= 0
      /\ base * 100 + Truncated(noise, 100) * 100 <= top
  <2>1. CASE noise < 0
    <3> DEFINE q == (- noise) \div 100
    <3>0. \A x \in Nat : x \div 100 \in Nat /\ (x \div 100) * 100 <= x
      OBVIOUS
    <3>1. q \in Nat /\ q * 100 <= - noise
      BY <1>3, <2>1, <3>0
    <3>2. Truncated(noise, 100) = - q
      BY <2>1 DEF Truncated
    <3> HIDE DEF q
    <3>3. q <= base
      BY <1>1, <1>3, <1>7, <3>1
    <3>4. 100 * base <= Shares[i] * base
      <4>1. 100 <= Shares[i]
        BY DEF Shares, noisePct
      <4> QED BY <1>1, <1>2, <4>1, ProductMonotone
    <3> QED BY <1>1, <1>8, <3>1, <3>2, <3>3, <3>4 DEF top
  <2>2. CASE noise >= 0
    <3> DEFINE q == noise \div 100
    <3>1. q \in Nat /\ q * 100 <= noise
      BY <1>3, <2>2
    <3>2. Truncated(noise, 100) = q
      BY <1>3, <2>2 DEF Truncated
    <3> HIDE DEF q
    <3> QED BY <1>1, <1>3, <1>7, <1>8, <3>1, <3>2 DEF top
  <2> QED BY <1>3, <2>1, <2>2
<1> DEFINE tr == Truncated(noise, 100)
<1> HIDE DEF tr
<1>10. tr \in Int /\ base + tr >= 0 /\ (base + tr) * 100 <= top
  BY <1>1, <1>9 DEF tr
<1>11. Noisy(total, SplitInto, i) = base + tr
  BY <1>5 DEF tr
<1> QED BY <1>1, <1>10, <1>11 DEF top, base

\* The other parts leave something to the last one, or nothing.
LEMMA OthersLeaveEnough ==
  ASSUME NEW total \in Nat
  PROVE  Sum(Others(total), 0..(SplitInto - 2)) <= total
<1> DEFINE ids == 0..(SplitInto - 2)
           base == total \div SplitInto
           hundreds == [i \in ids |-> Others(total)[i] * 100]
           shares == [i \in ids |-> Shares[i] * base]
           s == Sum(Others(total), ids)
           t == Sum(Shares, ids)
<1>1. SplitInto \in 2..20 /\ SplitInto - 2 \in 0..18 /\ ids \subseteq 0..18
  BY ScheduleConstants
<1>2. IsFiniteSet(ids) /\ IntOn(Others(total), ids) /\ s \in Int
  BY OthersSum
<1>3. base \in Nat /\ base * SplitInto <= total
  <2>1. \A n \in 2..20 : total \div n \in Nat /\ (total \div n) * n <= total
    OBVIOUS
  <2> QED BY <1>1, <2>1
<1> HIDE DEF base
<1>4. IntOn(Shares, ids) /\ t \in Int
  <2>1. IntOn(Shares, ids)
    BY <1>1, SharesType DEF IntOn
  <2> HIDE DEF ids
  <2> QED BY <1>2, <2>1, SumType
<1>5. IntOn(hundreds, ids) /\ Sum(hundreds, ids) = s * 100
  <2>1. \A i \in ids : hundreds[i] = Others(total)[i] * 100
    OBVIOUS
  <2>2. IntOn(hundreds, ids)
    BY <1>2, <2>1 DEF IntOn
  <2> HIDE DEF hundreds, ids
  <2> QED BY <1>2, <2>1, <2>2, SumScale
<1>6. IntOn(shares, ids) /\ Sum(shares, ids) = t * base
  <2>1. \A i \in ids : shares[i] = Shares[i] * base
    OBVIOUS
  <2>2. IntOn(shares, ids)
    BY <1>3, <1>4, <2>1 DEF IntOn
  <2>3. base \in Int
    BY <1>3
  <2> HIDE DEF shares, ids
  <2> QED BY <1>2, <1>4, <2>1, <2>2, <2>3, SumScale
<1>7. \A i \in ids : hundreds[i] <= shares[i]
  BY <1>1, NoisyBounds DEF Others, base
<1>8. Sum(hundreds, ids) <= Sum(shares, ids)
  <2> HIDE DEF hundreds, shares, ids
  <2> QED BY <1>2, <1>5, <1>6, <1>7, SumMonotone
<1>9. t <= 100 * SplitInto
  <2>1. Sum(Shares, ids) <= 100 * ((SplitInto - 2) + 2)
    BY <1>1, NoiseIsLessThanAPart
  <2> QED BY <1>1, <2>1
<1>10. t * base <= (100 * SplitInto) * base
  <2> HIDE DEF t
  <2> QED BY <1>1, <1>3, <1>4, <1>9, ProductMonotone
<1>11. (100 * SplitInto) * base = 100 * (base * SplitInto)
  BY <1>1, <1>3
<1> DEFINE u == base * SplitInto
           v == t * base
<1>12. u \in Int /\ v \in Int
  <2> HIDE DEF t
  <2> QED BY <1>1, <1>3, <1>4
<1>13. s * 100 <= v /\ v <= 100 * u /\ u <= total
  BY <1>3, <1>5, <1>6, <1>8, <1>10, <1>11
<1> HIDE DEF s, u, v
<1>14. s <= total
  BY <1>2, <1>12, <1>13
<1> QED BY <1>14 DEF s

\* Every part of a schedule is a natural number.
LEMMA PartsAreNatural ==
  ASSUME NEW total \in Nat, NEW k \in 1..SplitInto
  PROVE  SplitAmount(total, SplitInto, k) \in Nat
<1>1. SplitInto \in 2..20
  BY ScheduleConstants
<1>2. CASE k < SplitInto
  <2>1. k - 1 \in 0..18
    BY <1>1, <1>2
  <2> QED BY <1>2, <2>1, NoisyBounds DEF SplitAmount
<1>3. CASE ~ (k < SplitInto)
  BY <1>3, OthersSum, OthersLeaveEnough DEF SplitAmount, Others, Sum
<1> QED BY <1>2, <1>3

-----------------------------------------------------------------------------
(* Types and bounds                                                        *)

Counters ==
  /\ Len(exits) \in 0..MaxExits /\ proven \in 0..Len(exits) /\ now \in 0..MaxTime
  /\ faults \in 0..MaxFaults /\ overlaps \in 0..MaxOverlaps

\* The legs of a copy are records of the schedule.
Recorded(copy) == \A l \in Legs : copy[l] \in Records

RecordsInv ==
  /\ Counters /\ text \in {"whole", "empty", "mixed"}
  /\ Recorded(file) /\ \A p \in Processes : Recorded(process[p].state)

\* The exits are one longer where the bound allows it, or as many.
LEMMA Longer ==
  ASSUME CopiesInv, Counters, NEW p \in Processes,
         \/ UNCHANGED exits \/ ExitOnL2(p) \/ \E tx \in DOMAIN exits : Pay(tx)
  PROVE  Len(exits') \in 0..MaxExits /\ Len(exits') >= Len(exits)
<1>1. exits \in Seq(ExitRecords) /\ Len(exits) \in 0..MaxExits
  BY DEF CopiesInv, Shape, Counters
<1>2. CASE UNCHANGED exits
  BY <1>1, <1>2
<1>3. CASE ExitOnL2(p)
  <2>1. PICK e : exits' = Append(exits, e) /\ Len(exits) < MaxExits
    BY <1>3 DEF ExitOnL2
  <2>2. Len(exits') = Len(exits) + 1
    BY <1>1, <2>1
  <2> QED BY <1>1, <2>1, <2>2, ScheduleConstants
<1>4. ASSUME NEW tx \in DOMAIN exits, Pay(tx)
      PROVE  Len(exits') = Len(exits)
  <2>1. exits' = [exits EXCEPT ![tx] = [exits[tx] EXCEPT !.paid = TRUE]]
    BY <1>4 DEF Pay
  <2> QED BY <1>1, <2>1
<1> QED BY <1>1, <1>2, <1>3, <1>4

LEMMA CountersNext ==
  ASSUME CopiesInv, Counters, [Next]_vars
  PROVE  Counters'
<1>1. /\ exits \in Seq(ExitRecords) /\ Len(exits) \in 0..MaxExits /\ proven \in 0..Len(exits)
      /\ now \in 0..MaxTime /\ faults \in 0..MaxFaults /\ overlaps \in 0..MaxOverlaps
  BY DEF CopiesInv, Shape, Counters
<1>2. ASSUME Len(exits') \in 0..MaxExits, Len(exits') >= Len(exits), UNCHANGED <<now, proven>>,
             faults' = faults \/ Fault, overlaps' = overlaps \/ Overlap
      PROVE  Counters'
  <2>1. faults' \in 0..MaxFaults
    BY <1>1, <1>2, ScheduleConstants DEF Fault
  <2>2. overlaps' \in 0..MaxOverlaps
    BY <1>1, <1>2, ScheduleConstants DEF Overlap
  <2> QED BY <1>1, <1>2, <2>1, <2>2 DEF Counters
<1>3. ASSUME NEW p \in Processes, NEW plan \in Plans, NEW r \in Requests, schedule(p, plan, r)
      PROVE  Counters'
  BY <1>1, <1>2, <1>3 DEF schedule, Starts
<1>4. ASSUME NEW p \in Processes, NEW autoClaim \in BOOLEAN, startTick(p, autoClaim)
      PROVE  Counters'
  BY <1>1, <1>2, <1>4 DEF startTick, Starts
<1>5. ASSUME NEW p \in Processes, submitLeg(p) \/ submitFails(p) PROVE Counters'
  <2>1. UNCHANGED exits \/ ExitOnL2(p)
    BY <1>5 DEF submitLeg, submitFails
  <2> QED BY <1>2, <1>5, <2>1, Longer DEF submitLeg, submitFails, NoFault
<1>6. ASSUME NEW p \in Processes,
             \/ endTick(p) \/ openFile(p) \/ writeFile(p) \/ startClaims(p) \/ claimFails(p)
             \/ loadThrows(p) \/ killed(p)
      PROVE  Counters'
  <2>1. /\ UNCHANGED <<now, proven, exits>> /\ (faults' = faults \/ Fault)
        /\ UNCHANGED overlaps
    BY <1>6 DEF endTick, openFile, writeFile, startClaims, claimFails, loadThrows, killed, NoFault
  <2> QED BY <1>1, <1>2, <2>1
<1>7. ASSUME NEW p \in Processes, claimLeg(p) \/ claimThrows(p) PROVE Counters'
  <2>1. At(p, "claim") /\ (UNCHANGED exits \/ Pay(HeldLeg(p).l2TxHash))
    BY <1>7 DEF claimLeg, claimThrows
  <2>2. Pay(HeldLeg(p).l2TxHash) => HeldLeg(p).l2TxHash \in DOMAIN exits
    BY <2>1, ClaimPays
  <2>3. UNCHANGED exits \/ \E tx \in DOMAIN exits : Pay(tx)
    BY <2>1, <2>2
  <2> QED BY <1>2, <1>7, <2>3, Longer DEF claimLeg, claimThrows, NoFault
<1>8. ASSUME NEW tx \in DOMAIN exits, claimByHand(tx) PROVE Counters'
  <2>1. Pay(tx) /\ Overlap /\ UNCHANGED <<now, proven, faults>>
    BY <1>8 DEF claimByHand
  <2>2. Len(exits') = Len(exits)
    <3>1. exits' = [exits EXCEPT ![tx] = [exits[tx] EXCEPT !.paid = TRUE]]
      BY <2>1 DEF Pay
    <3> QED BY <1>1, <3>1
  <2> QED BY <1>1, <1>2, <2>1, <2>2
<1>9. CASE ProveExits
  BY <1>1, <1>9 DEF ProveExits, NoFault, Counters
<1>10. CASE Tick
  BY <1>1, <1>10, ScheduleConstants DEF Tick, NoFault, Counters
<1>11. CASE UNCHANGED vars
  BY <1>11 DEF vars, Counters
<1> QED BY <1>3, <1>4, <1>5, <1>6, <1>7, <1>8, <1>9, <1>10, <1>11 DEF Next

\* One process moves; the file stays, or becomes a copy that was recorded.
LEMMA RecordedStep ==
  ASSUME RecordsInv, NEW p \in Processes,
         \A q \in Processes \ {p} : process'[q] = process[q],
         Recorded(process'[p].state), file' = file \/ file' = process[p].state
  PROVE  Recorded(file') /\ \A q \in Processes : Recorded(process'[q].state)
BY DEF RecordsInv

\* A leg that moves on keeps its amount and its day.
LEMMA RecordedWith ==
  ASSUME NEW copy, NEW other, NEW l \in Legs, NEW leg, Recorded(copy),
         Differs(other, copy, l, leg), leg.status \in {"submitted", "done"},
         leg \in Entries, leg.amount = copy[l].amount, leg.submitAfter = copy[l].submitAfter,
         leg.l2TxHash \in 0..MaxExits
  PROVE  Recorded(other)
<1>1. copy[l] \in Records
  BY DEF Recorded
<1>2. leg.amount \in Nat /\ leg.submitAfter \in 0..MaxTime
  BY <1>1 DEF Records
<1>3. leg \in Records
  BY <1>2 DEF Entries, Records
<1> QED BY <1>3 DEF Recorded, Differs

LEMMA RecordedTick ==
  ASSUME CopiesInv, RecordsInv, NEW p \in Processes,
         \/ submitLeg(p) \/ submitFails(p) \/ endTick(p) \/ openFile(p) \/ writeFile(p)
         \/ startClaims(p) \/ claimLeg(p) \/ claimFails(p) \/ claimThrows(p)
         \/ loadThrows(p) \/ killed(p)
  PROVE  Recorded(file') /\ \A q \in Processes : Recorded(process'[q].state)
<1>1. process \in [Processes -> Ticks] /\ process[p] \in Ticks /\ exits \in Seq(ExitRecords)
  BY DEF CopiesInv, Shape
<1>2. Recorded(file) /\ Recorded(process[p].state)
  BY DEF RecordsInv
<1>3. Recorded(Idle.state)
  <2>1. Unscheduled \in Records
    BY ScheduleConstants DEF Unscheduled, Records, NoTx
  <2> QED BY <2>1 DEF Idle, Recorded
<1>4. CASE submitFails(p) \/ claimFails(p) \/ claimThrows(p)
  <2>1. SkipLeg(p) /\ process[p].todo # {} /\ file' = file
    BY <1>4 DEF submitFails, claimFails, claimThrows, LeaveSubmitted, At
  <2> QED BY <1>2, <2>1, SkipFields, RecordedStep
<1>5. CASE endTick(p) \/ writeFile(p)
  <2>1. /\ process' = [process EXCEPT ![p] = Rest(p)]
        /\ file' = file \/ file' = process[p].state
    BY <1>5 DEF endTick, writeFile
  <2>2. process'[p] = Rest(p) /\ \A q \in Processes \ {p} : process'[q] = process[q]
    BY <1>1, <2>1
  <2>3. Rest(p).state = Idle.state
    BY RestHoldsNothing
  <2> QED BY <1>3, <2>1, <2>2, <2>3, RecordedStep
<1>10. CASE openFile(p)
  <2> DEFINE t == [process[p] EXCEPT !.at = "write"]
  <2>1. process' = [process EXCEPT ![p] = t] /\ file' = file
    BY <1>10 DEF openFile
  <2>2. process'[p] = t /\ \A q \in Processes \ {p} : process'[q] = process[q]
    BY <1>1, <2>1
  <2>3. t.state = process[p].state
    BY <1>1 DEF Ticks
  <2> HIDE DEF t
  <2> QED BY <1>2, <2>1, <2>2, <2>3, RecordedStep
<1>6. CASE startClaims(p)
  <2> DEFINE legs == {l \in Legs : file[l].status = "submitted"}
             t == [process[p] EXCEPT !.at = "claim", !.state = file, !.todo = legs]
  <2>1. process' = [process EXCEPT ![p] = t] /\ file' = file
    BY <1>6 DEF startClaims
  <2>2. process'[p] = t /\ \A q \in Processes \ {p} : process'[q] = process[q]
    BY <1>1, <2>1
  <2>3. t.state = file
    BY <1>1 DEF Ticks
  <2> HIDE DEF t
  <2> QED BY <1>2, <2>1, <2>2, <2>3, RecordedStep
<1>7. CASE loadThrows(p) \/ killed(p)
  <2>1. process' = [process EXCEPT ![p] = Idle] /\ file' = file
    BY <1>7 DEF loadThrows, killed
  <2>2. process'[p] = Idle /\ \A q \in Processes \ {p} : process'[q] = process[q]
    BY <1>1, <2>1
  <2> QED BY <1>3, <2>1, <2>2, RecordedStep
<1>8. CASE submitLeg(p)
  <2> DEFINE leg == [HeldLeg(p) EXCEPT !.status = "submitted", !.l2TxHash = Len(exits')]
             c == Changed(p, leg)
             t == [c EXCEPT !.changed = TRUE]
  <2>1. /\ process[p].todo # {} /\ ExitOnL2(p) /\ file' = file
        /\ process' = [process EXCEPT ![p] = t]
    BY <1>8 DEF submitLeg, At
  <2>2. process'[p] = t /\ \A q \in Processes \ {p} : process'[q] = process[q]
    BY <1>1, <2>1
  <2>3. /\ leg \in Entries /\ leg.status = "submitted" /\ leg.l2TxHash = Len(exits')
        /\ leg.amount = HeldLeg(p).amount /\ leg.submitAfter = HeldLeg(p).submitAfter
    <3> DEFINE n == Len(exits')
               was == HeldLeg(p)
    <3>1. n \in Nat /\ was \in Entries
      BY <2>1, ExitIsTheLegs, HeldLegFields
    <3> HIDE DEF n, was
    <3>2. LET x == [was EXCEPT !.status = "submitted", !.l2TxHash = n]
          IN /\ x \in Entries /\ x.status = "submitted" /\ x.l2TxHash = n
             /\ x.amount = was.amount /\ x.submitAfter = was.submitAfter
      BY <3>1 DEF Entries, Statuses
    <3> QED BY <3>2 DEF n, was
  <2>4. Len(exits') \in 0..MaxExits
    BY <2>1, Longer DEF RecordsInv
  <2> HIDE DEF leg
  <2>5. c \in Ticks /\ Differs(c.state, process[p].state, NextLeg(p), leg)
    BY <2>1, <2>3, ChangedFields DEF Differs
  <2> HIDE DEF c
  <2>6. t.state = c.state
    BY <2>5 DEF Ticks
  <2> HIDE DEF t
  <2>7. NextLeg(p) \in Legs /\ HeldLeg(p) = process[p].state[NextLeg(p)]
    BY <2>1, HeldLegFields
  <2>8. Recorded(c.state)
    <3> DEFINE other == c.state
    <3>1. /\ leg.l2TxHash \in 0..MaxExits /\ leg.status \in {"submitted", "done"}
          /\ leg.amount = process[p].state[NextLeg(p)].amount
          /\ leg.submitAfter = process[p].state[NextLeg(p)].submitAfter
          /\ Differs(other, process[p].state, NextLeg(p), leg)
      BY <2>3, <2>4, <2>5, <2>7
    <3> HIDE DEF other
    <3>2. Recorded(other)
      BY <1>2, <2>3, <2>7, <3>1, RecordedWith
    <3> QED BY <3>2 DEF other
  <2> QED BY <2>1, <2>2, <2>6, <2>8, RecordedStep
<1>9. CASE claimLeg(p)
  <2> DEFINE leg == [HeldLeg(p) EXCEPT !.status = "done"]
             c == Changed(p, leg)
  <2>1. /\ process[p].todo # {} /\ file' = file /\ process' = [process EXCEPT ![p] = c]
    BY <1>9 DEF claimLeg, MarkDone, At
  <2>2. process'[p] = c /\ \A q \in Processes \ {p} : process'[q] = process[q]
    BY <1>1, <2>1
  <2>3. /\ NextLeg(p) \in Legs /\ HeldLeg(p) = process[p].state[NextLeg(p)]
        /\ HeldLeg(p) \in Entries
    BY <2>1, HeldLegFields
  <2>4. /\ leg \in Entries /\ leg.status = "done" /\ leg.l2TxHash = HeldLeg(p).l2TxHash
        /\ leg.amount = HeldLeg(p).amount /\ leg.submitAfter = HeldLeg(p).submitAfter
    BY <2>3 DEF Entries, Statuses
  <2> HIDE DEF leg
  <2>5. Differs(c.state, process[p].state, NextLeg(p), leg)
    BY <2>1, <2>4, ChangedFields DEF Differs
  <2> HIDE DEF c
  <2>6. HeldLeg(p).l2TxHash \in 0..MaxExits
    BY <1>2, <2>3 DEF Recorded, Records
  <2>7. Recorded(c.state)
    BY <1>2, <2>3, <2>4, <2>5, <2>6, RecordedWith
  <2> QED BY <2>1, <2>2, <2>7, RecordedStep
<1> QED BY <1>4, <1>5, <1>6, <1>7, <1>8, <1>9, <1>10

\* The legs a schedule writes have natural amounts, and days before the bound.
LEMMA RecordedSchedule ==
  ASSUME CopiesInv, RecordsInv, NEW p \in Processes, NEW plan \in Plans, NEW r \in Requests,
         schedule(p, plan, r)
  PROVE  Recorded(file') /\ \A q \in Processes : Recorded(process'[q].state)
<1>1. now + SplitInto - 1 <= MaxTime
  BY DEF schedule
<1>2. r.total \in Nat /\ r.isPrivate \in BOOLEAN
  BY ScheduleConstants
<1>3. ASSUME NEW l \in Legs PROVE Planned(plan, r)[l] \in Records
  <2> DEFINE a == SplitAmount(r.total, SplitInto, l[2])
             n == now + l[2] - 1
             e == [status |-> "pending", amount |-> a, isPrivate |-> r.isPrivate,
                   l2TxHash |-> NoTx, submitAfter |-> n]
  <2>1. Planned(plan, r)[l] = IF l[1] # plan THEN file[l] ELSE e
    BY DEF Planned
  <2>2. l[2] \in 1..SplitInto
    BY DEF Legs
  <2>3. a \in Nat
    BY <1>2, <2>2, PartsAreNatural
  <2>4. n \in 0..MaxTime
    <3>1. now \in Nat /\ SplitInto \in Nat /\ MaxTime \in Nat
      BY ScheduleConstants DEF RecordsInv, Counters
    <3> QED BY <1>1, <2>2, <3>1
  <2>5. NoTx \in 0..MaxExits
    BY ScheduleConstants DEF NoTx
  <2> HIDE DEF a, n
  <2>6. e \in Records
    BY <1>2, <2>3, <2>4, <2>5 DEF Records
  <2> HIDE DEF e
  <2> QED BY <2>1, <2>6 DEF RecordsInv, Recorded
<1>4. /\ \A q \in Processes \ {p} : process'[q] = process[q]
      /\ process'[p].state = Planned(plan, r) /\ file' = file
  BY ScheduleSteps
<1>5. Recorded(process'[p].state)
  BY <1>3, <1>4 DEF Recorded
<1> QED BY <1>4, <1>5, RecordedStep

\* Whether the file can be read is as a step of a command leaves it.
LEMMA TextNext ==
  ASSUME text \in {"whole", "empty", "mixed"}, [Next]_vars
  PROVE  text' \in {"whole", "empty", "mixed"}
<1>1. ASSUME NEW p \in Processes, openFile(p) \/ writeFile(p) \/ killed(p)
      PROVE  text' \in {"whole", "empty", "mixed"}
  BY <1>1 DEF openFile, writeFile, killed
<1>2. ASSUME NEW p \in Processes,
             \/ submitLeg(p) \/ submitFails(p) \/ endTick(p) \/ startClaims(p) \/ claimLeg(p)
             \/ claimFails(p) \/ claimThrows(p) \/ loadThrows(p)
             \/ \E plan \in Plans, r \in Requests : schedule(p, plan, r)
             \/ \E autoClaim \in BOOLEAN : startTick(p, autoClaim)
      PROVE  UNCHANGED text
  BY <1>2 DEF submitLeg, submitFails, endTick, startClaims, claimLeg, claimFails, claimThrows,
              loadThrows, schedule, startTick
<1>3. CASE (\E tx \in DOMAIN exits : claimByHand(tx)) \/ ProveExits \/ Tick \/ UNCHANGED vars
  BY <1>3 DEF claimByHand, ProveExits, Tick, vars
<1> QED BY <1>1, <1>2, <1>3 DEF Next

LEMMA RecordsNext ==
  ASSUME CopiesInv, RecordsInv, [Next]_vars
  PROVE  RecordsInv'
<1>1. Counters'
  BY CountersNext DEF RecordsInv
<1>2. Recorded(file) /\ \A p \in Processes : Recorded(process[p].state)
  BY DEF RecordsInv
<1>3. Recorded(file') /\ \A p \in Processes : Recorded(process'[p].state)
  <2>1. ASSUME NEW p \in Processes, NEW plan \in Plans, NEW r \in Requests,
               schedule(p, plan, r)
        PROVE  Recorded(file') /\ \A q \in Processes : Recorded(process'[q].state)
    BY <2>1, RecordedSchedule
  <2>2. ASSUME NEW p \in Processes, NEW autoClaim \in BOOLEAN, startTick(p, autoClaim)
        PROVE  Recorded(file') /\ \A q \in Processes : Recorded(process'[q].state)
    <3> DEFINE t == [at |-> "submit", autoClaim |-> autoClaim, state |-> file,
                     todo |-> Due(file), changed |-> FALSE]
    <3>1. process' = [process EXCEPT ![p] = t] /\ file' = file /\ t.state = file
      BY <2>2 DEF startTick
    <3> HIDE DEF t
    <3>2. process'[p] = t /\ \A q \in Processes \ {p} : process'[q] = process[q]
      BY <3>1 DEF CopiesInv, Shape
    <3> QED BY <1>2, <3>1, <3>2, RecordedStep
  <2>3. ASSUME UNCHANGED <<file, process>>
        PROVE  Recorded(file') /\ \A p \in Processes : Recorded(process'[p].state)
    BY <1>2, <2>3
  <2>4. ASSUME NEW tx \in DOMAIN exits, claimByHand(tx) PROVE UNCHANGED <<file, process>>
    BY <2>4 DEF claimByHand
  <2>5. CASE ProveExits \/ Tick \/ UNCHANGED vars
    BY <2>3, <2>5 DEF ProveExits, Tick, vars
  <2> QED BY <2>1, <2>2, <2>3, <2>4, <2>5, RecordedTick DEF Next
<1>4. text' \in {"whole", "empty", "mixed"}
  BY TextNext DEF RecordsInv
<1> QED BY <1>1, <1>3, <1>4 DEF RecordsInv, Recorded

LEMMA InitRecords == Init => RecordsInv
<1> SUFFICES ASSUME Init PROVE RecordsInv
  OBVIOUS
<1>1. Unscheduled \in Records
  BY ScheduleConstants DEF Unscheduled, Records, NoTx
<1>2. Recorded(file) /\ \A p \in Processes : Recorded(process[p].state)
  BY <1>1 DEF Init, Recorded, Idle
<1>3. exits = <<>> /\ proven = 0 /\ now = 0 /\ faults = 0 /\ overlaps = 0 /\ text = "whole"
  BY DEF Init
<1>4. Counters
  BY <1>3, ScheduleConstants DEF Counters
<1> QED BY <1>2, <1>3, <1>4 DEF RecordsInv

\* The file and what the ticks hold are records of the schedule, and no part of
\* any total split any way is negative (buildSplitSchedule, tick).
THEOREM TypeOKCorrect == Spec => []TypeOK
<1>1. CopiesInv /\ RecordsInv /\ [Next]_vars => RecordsInv'
  BY RecordsNext
<1>2. CopiesInv /\ RecordsInv => TypeOK
  <2> SUFFICES ASSUME CopiesInv, RecordsInv PROVE TypeOK
    OBVIOUS
  <2>1. file \in Copies /\ process \in [Processes -> Ticks]
    BY DEF CopiesInv, Shape
  <2>2. file \in [Legs -> Records]
    BY <2>1 DEF Copies, RecordsInv, Recorded
  <2>3. ASSUME NEW p \in Processes
        PROVE  /\ process[p].at \in {"idle", "submit", "write", "reload", "claim"}
               /\ process[p].state \in [Legs -> Records]
               /\ process[p].todo \subseteq Legs
    BY <2>1 DEF Ticks, Phases, Copies, RecordsInv, Recorded
  <2> QED BY <2>2, <2>3 DEF TypeOK, RecordsInv, Counters
<1> QED BY <1>1, <1>2, InitRecords, CopiesAreSound, PTL DEF Spec
=============================================================================
