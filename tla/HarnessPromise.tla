---------------------------- MODULE HarnessPromise ----------------------------
(***************************************************************************)
(* What a harness run promises to its operator, without processes, files   *)
(* or locks: the run is frozen once, goes through attempts, spends one     *)
(* bounded budget of worker starts, and ends for good either passed, on an *)
(* accepted checkpoint, or abandoned.                                      *)
(***************************************************************************)
EXTENDS Integers

CONSTANTS Good,     \* the contents the verifier accepts
          Budget    \* worker starts granted to the task

VARIABLES phase,      \* where the run stands
          baseline,   \* what was frozen at the first entry
          checkpoint, \* the contents the next attempt continues from
          started     \* worker starts so far

promiseVars == <<phase, baseline, checkpoint, started>>

Unfrozen == <<-1, -1>>

PromiseInit ==
  /\ phase = "new" /\ baseline = Unfrozen /\ checkpoint = -1 /\ started = 0

\* The first entry freezes the controls and the surroundings of the sources.
Freeze ==
  /\ phase = "new" /\ baseline = Unfrozen
  /\ baseline' # Unfrozen
  /\ UNCHANGED <<phase, started>>

\* An attempt starts; never after a pass, never over an abandoned attempt.
Attempt ==
  /\ baseline # Unfrozen
  /\ phase \in {"new", "stopped", "paused"} /\ phase' = "open"
  /\ UNCHANGED <<baseline, checkpoint, started>>

Work ==
  /\ phase = "open" /\ started < Budget
  /\ started' = started + 1
  /\ UNCHANGED <<phase, baseline, checkpoint>>

Record ==
  /\ phase = "open" /\ UNCHANGED <<phase, baseline, started>>

Finish ==
  /\ phase = "open"
  /\ \/ phase' \in {"stopped", "paused", "abandoned"}
     \/ phase' = "passed" /\ checkpoint \in Good
  /\ UNCHANGED <<baseline, checkpoint, started>>

PromiseNext == Freeze \/ Attempt \/ Work \/ Record \/ Finish

Promise == PromiseInit /\ [][PromiseNext]_promiseVars
=============================================================================
