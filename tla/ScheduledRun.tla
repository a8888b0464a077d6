---------------------------- MODULE ScheduledRun -----------------------------
(***************************************************************************)
(* The daily job around `labour-etl run`                                   *)
(* (.github/workflows/scheduled-run.yml): what the step that runs the      *)
(* pipeline makes of its exit code.                                        *)
(***************************************************************************)
EXTENDS Pipeline

(* The commands of `labour-etl run ... | tee run.log`, with their codes.   *)
PipedCodes(p) == <<ExitCode(run[p]), 0>>

(* A step without `shell:` runs under `bash -e`, which takes the code of   *)
(* the last command of a pipe for the pipe's.                              *)
StepCode(p) == PipedCodes(p)[Len(PipedCodes(p))]

GoesRed(p) == StepCode(p) # 0

-----------------------------------------------------------------------------

(* "It goes red only if every source fails", and does so then              *)
(* (scheduled-run.yml 12-14).                                              *)
RedWhenEverySourceFails ==
    \A p \in Procs : pc[p] = "done" => (GoesRed(p) <=> landed[p] = {})
=============================================================================
