---------------------------- MODULE ExitSchedule ----------------------------
(***************************************************************************)
(* Split exits of the bridge: `quetzal bridge exit --split-into` writes a  *)
(* schedule of legs to one state file, and every `quetzal bridge tick`     *)
(* reads the file, burns the legs that are due on L2, writes the file,     *)
(* and with --auto-claim reads it again, withdraws the burned legs on L1   *)
(* and writes it once more (sdk/src/bridge.ts,                             *)
(* sdk/src/privacy/bridge-schedule.ts, cli/src/commands/bridge.ts).        *)
(* The file is read whole and rewritten in place: it is emptied, then      *)
(* filled.  Commands may run at the same time, any of them may be killed,  *)
(* and a file that was left half written can be read by none of them.      *)
(*                                                                         *)
(* Of the bridge itself (module Bridge) this keeps what the schedule sees: *)
(* an exit has a transaction, is proven some time later, and is withdrawn  *)
(* on L1 at most once, by the call of its own mode.                        *)
(***************************************************************************)
EXTENDS Integers, Sequences, FiniteSets, FiniteSetsExt, Functions

CONSTANTS
  Plans, SplitInto, \* schedules that may be made, and their number of legs
  Requests,         \* what may be asked for: [total, isPrivate]
  MaxProcesses,     \* bound: commands that run at the same time
  MaxTime,          \* bound: clock, in intervals
  MaxExits,         \* bound: exits made on L2
  MaxFaults,        \* bound: failed sends, lost answers, killed commands
  MaxOverlaps       \* bound: commands started while another one runs

NoRequest == [total |-> 0, isPrivate |-> FALSE]

ASSUME ScheduleConstants ==
  /\ Plans \subseteq Nat /\ IsFiniteSet(Plans) /\ SplitInto \in 2..20
  /\ Requests \subseteq [total : Nat, isPrivate : BOOLEAN] \ {NoRequest}
  /\ MaxProcesses \in Nat /\ MaxTime \in Nat /\ MaxExits \in Nat
  /\ MaxFaults \in Nat /\ MaxOverlaps \in Nat

Processes == 1..MaxProcesses
Legs == Plans \X (1..SplitInto)
NoTx == 0
Unscheduled == [status |-> "none", amount |-> 0, isPrivate |-> FALSE, l2TxHash |-> NoTx,
                submitAfter |-> 0]

VARIABLES
  file,      \* bridge-state.json, as it was last written: a record by leg
  text,      \* whether it can be parsed: "whole"; or not: "empty", "mixed"
  process,   \* a command: where it is, the file as it read it, what is left to do
  now,
  exits,     \* on L2 and in its outbox, by transaction
  proven,    \* how many of them the rollup has proven to L1, in their order
  request,   \* history: what was asked for
  faults, overlaps   \* history: what went wrong

vars == <<file, text, process, now, exits, proven, request, faults, overlaps>>

Idle == [at |-> "idle", autoClaim |-> FALSE, state |-> [l \in Legs |-> Unscheduled],
         todo |-> {}, changed |-> FALSE]

Init ==
  /\ file = [l \in Legs |-> Unscheduled] /\ text = "whole"
  /\ process = [p \in Processes |-> Idle]
  /\ request = [plan \in Plans |-> NoRequest]
  /\ now = 0 /\ exits = <<>> /\ proven = 0 /\ faults = 0 /\ overlaps = 0

-----------------------------------------------------------------------------
(* The amounts: a total in uneven parts.  Integer division of the code     *)
(* truncates towards zero.                                                 *)

Truncated(a, b) == IF a < 0 THEN - ((- a) \div b) ELSE a \div b
noisePct(i) == ((i * 37) % 41) - 20

\* Mutant: the percentage is taken for a tenth.
NoisyInTenths(total, n, i) ==
  LET base == total \div n IN base + Truncated(base * noisePct(i), 10)

Noisy(total, n, i) ==
  LET base == total \div n IN base + Truncated(base * noisePct(i), 100)

\* Mutant: the last part is not adjusted.
UnadjustedAmount(total, n, k) == Noisy(total, n, k - 1)

\* Part k of n; the last one is what the others leave.
SplitAmount(total, n, k) ==
  IF k < n THEN Noisy(total, n, k - 1)
  ELSE total - SumFunctionOnSet([i \in 0..(n - 2) |-> Noisy(total, n, i)], 0..(n - 2))

-----------------------------------------------------------------------------
(* Commands *)

Running == {p \in Processes : process[p].at # "idle"}

\* A command that starts while another runs: the two read and write one file.
Overlap ==
  /\ overlaps' = overlaps + IF Running = {} THEN 0 ELSE 1
  /\ overlaps' <= MaxOverlaps

Fault == faults < MaxFaults /\ faults' = faults + 1
NoFault == UNCHANGED <<request, faults, overlaps>>

\* A command starts by reading the file.
Starts(p) == process[p].at = "idle" /\ 1..(p - 1) \subseteq Running /\ text = "whole" /\ Overlap

\* What exit --split-into will write: the file it read, and the legs.
Planned(plan, r) ==
  [l \in Legs |->
     IF l[1] # plan THEN file[l]
     ELSE [status |-> "pending", amount |-> SplitAmount(r.total, SplitInto, l[2]),
           isPrivate |-> r.isPrivate, l2TxHash |-> NoTx, submitAfter |-> now + l[2] - 1]]

\* exit --split-into: has its legs to save, and nothing to submit.
schedule(p, plan, r) ==
  /\ request[plan] = NoRequest
  /\ now + SplitInto - 1 <= MaxTime
  /\ Starts(p)
  /\ request' = [request EXCEPT ![plan] = r]
  /\ process' = [process EXCEPT ![p] =
       [at |-> "submit", autoClaim |-> FALSE, state |-> Planned(plan, r), todo |-> {},
        changed |-> TRUE]]
  /\ UNCHANGED <<file, text, now, proven, exits, faults>>

\* Mutant: a leg is due whatever its status.
DueByClock(state) == {l \in Legs : state[l].status # "none" /\ state[l].submitAfter <= now}

Due(state) == {l \in Legs : state[l].status = "pending" /\ state[l].submitAfter <= now}

startTick(p, autoClaim) ==
  /\ Starts(p)
  /\ process' = [process EXCEPT ![p] =
       [at |-> "submit", autoClaim |-> autoClaim, state |-> file, todo |-> Due(file),
        changed |-> FALSE]]
  /\ UNCHANGED <<file, text, now, proven, exits, request, faults>>

\* The order of the array: by plan, then by part.
Earlier(x, y) == x[1] < y[1] \/ (x[1] = y[1] /\ x[2] < y[2])
NextLeg(p) == CHOOSE l \in process[p].todo : \A x \in process[p].todo \ {l} : Earlier(l, x)

At(p, phase) == process[p].at = phase /\ process[p].todo # {}
HeldLeg(p) == process[p].state[NextLeg(p)]

\* What a tick holds once the leg is changed, in its copy of the file.
Changed(p, leg) ==
  [process[p] EXCEPT !.todo = @ \ {NextLeg(p)}, !.state = [@ EXCEPT ![NextLeg(p)] = leg]]

\* Mutant: every leg is burned in the open.
PublicMode(leg) == FALSE

legPrivate(leg) == leg.isPrivate

\* exit_to_l1_public or exit_to_l1_private, as the leg was requested.
ExitOnL2(p) ==
  /\ Len(exits) < MaxExits
  /\ exits' = Append(exits, [leg |-> NextLeg(p), amount |-> HeldLeg(p).amount,
                             isPrivate |-> legPrivate(HeldLeg(p)), paid |-> FALSE])

submitLeg(p) ==
  /\ At(p, "submit")
  /\ ExitOnL2(p)
  /\ LET leg == [HeldLeg(p) EXCEPT !.status = "submitted", !.l2TxHash = Len(exits')]
     IN process' = [process EXCEPT ![p] = [Changed(p, leg) EXCEPT !.changed = TRUE]]
  /\ UNCHANGED <<file, text, now, proven>> /\ NoFault

SkipLeg(p) == process' = [process EXCEPT ![p] = [process[p] EXCEPT !.todo = @ \ {NextLeg(p)}]]

\* The send throws: the leg stays pending, whether or not the exit was made.
submitFails(p) ==
  /\ At(p, "submit") /\ Fault
  /\ ExitOnL2(p) \/ UNCHANGED exits
  /\ SkipLeg(p)
  /\ UNCHANGED <<file, text, now, proven, request, overlaps>>

\* After its submissions a tick reads the file again, or stops.
Rest(p) == IF process[p].autoClaim THEN [Idle EXCEPT !.at = "reload"] ELSE Idle

\* Nothing was submitted: nothing is written.
endTick(p) ==
  /\ process[p].at = "submit" /\ process[p].todo = {} /\ ~ process[p].changed
  /\ process' = [process EXCEPT ![p] = Rest(p)]
  /\ UNCHANGED <<file, text, now, proven, exits>> /\ NoFault

\* The claims are always written, the submissions when there were any.
Saves(p) ==
  /\ process[p].todo = {}
  /\ process[p].at = "claim" \/ (process[p].at = "submit" /\ process[p].changed)

\* saveBridgeState opens the file, which empties it...
openFile(p) ==
  /\ Saves(p)
  /\ text' = "empty"
  /\ process' = [process EXCEPT ![p] = [process[p] EXCEPT !.at = "write"]]
  /\ UNCHANGED <<file, now, proven, exits>> /\ NoFault

\* ... and writes from its start: over another command's text, if one wrote
\* meanwhile, of which an end may be left.
writeFile(p) ==
  /\ process[p].at = "write"
  /\ file' = process[p].state
  /\ text' = "whole" \/ (text # "empty" /\ text' = "mixed")
  /\ process' = [process EXCEPT ![p] = Rest(p)]
  /\ UNCHANGED <<now, proven, exits>> /\ NoFault

startClaims(p) ==
  /\ process[p].at = "reload" /\ text = "whole"
  /\ process' = [process EXCEPT ![p] =
       [process[p] EXCEPT !.at = "claim", !.state = file,
                          !.todo = {l \in Legs : file[l].status = "submitted"}]]
  /\ UNCHANGED <<file, text, now, proven, exits>> /\ NoFault

\* The file cannot be parsed: whatever the command, it throws.
loadThrows(p) ==
  /\ process[p].at \in {"idle", "reload"} /\ text # "whole"
  /\ process' = [process EXCEPT ![p] = Idle]
  /\ UNCHANGED <<file, text, now, proven, exits>> /\ NoFault

\* The L1 contract: once proven, once, by the call of its mode.
Withdrawable(tx, isPrivate) ==
  tx <= proven /\ ~ exits[tx].paid /\ exits[tx].isPrivate = isPrivate

\* The auto-claim always looks for the content of, and calls, the public one.
ClaimWorks(p) == Withdrawable(HeldLeg(p).l2TxHash, FALSE)

Pay(tx) == exits' = [exits EXCEPT ![tx].paid = TRUE]

MarkDone(p) ==
  process' = [process EXCEPT ![p] = Changed(p, [HeldLeg(p) EXCEPT !.status = "done"])]

claimLeg(p) ==
  /\ At(p, "claim") /\ ClaimWorks(p)
  /\ Pay(HeldLeg(p).l2TxHash)
  /\ MarkDone(p)
  /\ UNCHANGED <<file, text, now, proven>> /\ NoFault

\* Mutant: the leg is done when the transaction was sent.
MarkAnyway(p) == MarkDone(p)

\* Mutant: a leg that could not be withdrawn starts again.
BackToPending(p) ==
  process' = [process EXCEPT ![p] = Changed(p, [HeldLeg(p) EXCEPT !.status = "pending"])]

\* No proof yet, another content, or a revert: retried on the next tick.
LeaveSubmitted(p) == SkipLeg(p)

claimFails(p) ==
  /\ At(p, "claim") /\ ~ ClaimWorks(p)
  /\ LeaveSubmitted(p)
  /\ UNCHANGED <<file, text, now, proven, exits>> /\ NoFault

\* Sent and mined, but the receipt does not arrive; or not even sent.
claimThrows(p) ==
  /\ At(p, "claim") /\ ClaimWorks(p) /\ Fault
  /\ Pay(HeldLeg(p).l2TxHash) \/ UNCHANGED exits
  /\ LeaveSubmitted(p)
  /\ UNCHANGED <<file, text, now, proven, request, overlaps>>

\* Between the opening and the end of the writing, the file stays as it is then.
killed(p) ==
  /\ process[p].at # "idle" /\ Fault
  /\ text' = text \/ (process[p].at = "write" /\ text' = "mixed")
  /\ process' = [process EXCEPT ![p] = Idle]
  /\ UNCHANGED <<file, now, proven, exits, request, overlaps>>

\* The command of `bridge claim-l1`, run by hand.
claimByHand(tx) ==
  /\ \E isPrivate \in BOOLEAN : Withdrawable(tx, isPrivate)
  /\ Pay(tx)
  /\ Overlap
  /\ UNCHANGED <<file, text, process, now, proven, request, faults>>

\* The rollup proves its epochs in order, each with some of the exits.
ProveExits ==
  /\ proven < Len(exits)
  /\ proven' \in (proven + 1)..Len(exits)
  /\ UNCHANGED <<file, text, process, now, exits>> /\ NoFault

Tick ==
  /\ now < MaxTime /\ now' = now + 1
  /\ UNCHANGED <<file, text, process, exits, proven>> /\ NoFault

Next ==
  \/ \E p \in Processes :
       \/ \E plan \in Plans, r \in Requests : schedule(p, plan, r)
       \/ \E autoClaim \in BOOLEAN : startTick(p, autoClaim)
       \/ submitLeg(p) \/ submitFails(p) \/ endTick(p) \/ openFile(p) \/ writeFile(p)
       \/ startClaims(p) \/ claimLeg(p) \/ claimFails(p) \/ claimThrows(p)
       \/ loadThrows(p) \/ killed(p)
  \/ \E tx \in DOMAIN exits : claimByHand(tx)
  \/ ProveExits \/ Tick

\* A command runs to its end, the owner runs one with --auto-claim every now and
\* then, the rollup proves its epochs and time passes.
Fairness ==
  /\ SF_vars(\E p \in Processes : startTick(p, TRUE))
  /\ \A p \in Processes :
       /\ WF_vars(submitLeg(p)) /\ WF_vars(endTick(p)) /\ WF_vars(openFile(p))
       /\ WF_vars(writeFile(p)) /\ WF_vars(startClaims(p)) /\ WF_vars(loadThrows(p))
       /\ WF_vars(claimLeg(p)) /\ WF_vars(claimFails(p))
  /\ WF_vars(ProveExits) /\ WF_vars(Tick)

Spec == Init /\ [][Next]_vars /\ Fairness

-----------------------------------------------------------------------------
(* Properties *)

Records == [status : {"none", "pending", "submitted", "done"}, amount : Nat,
            isPrivate : BOOLEAN, l2TxHash : 0..MaxExits, submitAfter : 0..MaxTime]

\* The file and what the commands hold are records of the schedule, the amounts of
\* their legs are never negative, and every bound is kept.
TypeOK ==
  /\ file \in [Legs -> Records] /\ text \in {"whole", "empty", "mixed"}
  /\ \A p \in Processes :
       /\ process[p].at \in {"idle", "submit", "write", "reload", "claim"}
       /\ process[p].state \in [Legs -> Records]
       /\ process[p].todo \subseteq Legs
  /\ Len(exits) \in 0..MaxExits /\ proven \in 0..Len(exits) /\ now \in 0..MaxTime
  /\ faults \in 0..MaxFaults /\ overlaps \in 0..MaxOverlaps

Burned(l) == {tx \in DOMAIN exits : exits[tx].leg = l}

\* Whatever commands overlap, fail or are killed, a leg the file calls
\* submitted or done names an exit that was made for it, in the mode that was
\* asked for.
SubmittedLegsAreBurned ==
  \A l \in Legs : file[l].status \in {"submitted", "done"} =>
    /\ file[l].l2TxHash \in Burned(l)
    /\ exits[file[l].l2TxHash].isPrivate = request[l[1]].isPrivate

\* A plan whose legs the file all calls done has been paid on L1, and in full.
DonePlansArePaid ==
  \A plan \in Plans :
    LET legs == {plan} \X (1..SplitInto)
    IN (\A l \in legs : file[l].status = "done") =>
         /\ \A l \in legs : exits[file[l].l2TxHash].paid
         /\ SumFunctionOnSet([l \in legs |-> exits[file[l].l2TxHash].amount], legs)
              = request[plan].total

\* A leg is burned once, and once more at most for every command that was
\* killed, answer that was lost or command that ran beside another.
ExtraExitsHaveACause ==
  \A l \in Legs : Cardinality(Burned(l)) <= 1 + faults + overlaps

\* No command reads the file again, until its owner mends it by hand.
Lost == text # "whole" /\ Running = {}

\* One command at a time, the file forgets nothing: no leg disappears from it
\* or falls back to an earlier status, whichever command is killed, except all
\* at once: a kill between the opening and the writing of the file loses it.
Rank(status) == CASE status = "none" -> 0 [] status = "pending" -> 1
                  [] status = "submitted" -> 2 [] status = "done" -> 3

StatusOnlyAdvances ==
  [][overlaps' = 0 =>
       /\ \A l \in Legs : Rank(file'[l].status) >= Rank(file[l].status)
       /\ Lost' => Lost \/ \E p \in Processes : process[p].at = "write" /\ killed(p)]_vars

\* A public leg that was scheduled is paid on L1 in the end, unless commands
\* ran beside each other or the file was lost.
PublicLegsArePaid ==
  \A l \in Legs :
    file[l].status = "pending" /\ ~ file[l].isPrivate ~>
      (\E tx \in Burned(l) : exits[tx].paid) \/ overlaps > 0 \/ Lost

=============================================================================
