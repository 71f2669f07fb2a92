----------------------------- MODULE ExportJobs -----------------------------
(***************************************************************************)
(* Data export: a job row per export, a background build that writes the   *)
(* archive, a one-time download token in Redis and a sweep that deletes    *)
(* old archives.  A start first looks for an active job of its scope and   *)
(* then inserts one; a unique partial index on the active rows of a scope  *)
(* refuses the second of two.  Builds live in the process only, so a       *)
(* restart leaves their rows active until they are old enough to be        *)
(* reaped, at startup.                                                     *)
(***************************************************************************)
EXTENDS Naturals, FiniteSets

CONSTANTS
  Export,     \* export_jobs rows
  Scope,      \* a workspace, or all of them
  Caller,     \* requests under way
  NoExport,
  MaxBreaks   \* bound: failures, expiries and restarts

ASSUME ExportAssumption ==
  NoExport \notin Export \cup Scope /\ MaxBreaks \in Nat

VARIABLES
  job,      \* [Export -> its status, scope, whether it has a token, whether it is old]
  build,    \* the background task: [Export -> the step it is at]
  archive,  \* the zip: [Export -> "none", "open", "whole" or "swept"]
  ticket,   \* the token in Redis: [Export -> "none", "live" or "spent"]
  caller,   \* [Caller -> [at, scope, export]]
  served,   \* ghost: [Export -> downloads that got the archive]
  breaks

exportVars == <<job, build, archive, ticket, caller, served, breaks>>

NoJob == [status |-> "none", scope |-> NoExport, token |-> FALSE, old |-> FALSE]
Away  == [at |-> "away", scope |-> NoExport, export |-> NoExport]

Active(j)  == job[j].status \in {"pending", "running"}

\* Only the exports that run already count (a mutant).
RunningOf(s) == {j \in Export : job[j].status = "running" /\ job[j].scope = s}

\* find_active_for_scope, and what the unique index covers.
ActiveOf(s) == {j \in Export : Active(j) /\ job[j].scope = s}

Break == breaks > 0 /\ breaks' = breaks - 1

-----------------------------------------------------------------------------
\* start: an active job of the scope is the answer.
Look(c, s) ==
  /\ caller[c] = Away
  /\ caller' = [caller EXCEPT ![c] = IF ActiveOf(s) # {} THEN @
                                     ELSE [@ EXCEPT !.at = "insert", !.scope = s]]
  /\ UNCHANGED <<job, build, archive, ticket, served, breaks>>

\* The insert, or the index's refusal; the loser looks again and returns
\* whatever it finds, or raises.
Insert(c) ==
  LET s == caller[c].scope
  IN  /\ caller[c].at = "insert"
      /\ caller' = [caller EXCEPT ![c] = Away]
      /\ \/ ActiveOf(s) # {} /\ UNCHANGED <<job, build>>
         \/ /\ ActiveOf(s) = {}
            /\ \E j \in Export :
                 /\ job[j] = NoJob
                 /\ job' = [job EXCEPT ![j] = [NoJob EXCEPT !.status = "pending", !.scope = s]]
                 /\ build' = [build EXCEPT ![j] = "start"]
      /\ UNCHANGED <<archive, ticket, served, breaks>>

-----------------------------------------------------------------------------
(* _build, one step per await on a store. *)

BuildStep(j, from, to) == build[j] = from /\ build' = [build EXCEPT ![j] = to]

Run(j) ==
  /\ BuildStep(j, "start", "write")
  /\ job' = [job EXCEPT ![j].status = "running", ![j].old = FALSE]
  /\ archive' = [archive EXCEPT ![j] = "open"]
  /\ UNCHANGED <<ticket, caller, served, breaks>>

Write(j) ==
  /\ BuildStep(j, "write", "mint")
  /\ archive' = [archive EXCEPT ![j] = "whole"]
  /\ UNCHANGED <<job, ticket, caller, served, breaks>>

Mint(j) ==
  /\ BuildStep(j, "mint", "result")
  /\ ticket' = [ticket EXCEPT ![j] = "live"]
  /\ UNCHANGED <<job, archive, caller, served, breaks>>

SetResult(j) ==
  /\ BuildStep(j, "result", "ready")
  /\ job' = [job EXCEPT ![j].token = TRUE, ![j].old = FALSE]
  /\ UNCHANGED <<archive, ticket, caller, served, breaks>>

SetReady(j) ==
  /\ BuildStep(j, "ready", "rest")
  /\ job' = [job EXCEPT ![j].status = "ready", ![j].old = FALSE]
  /\ UNCHANGED <<archive, ticket, caller, served, breaks>>

\* An exception anywhere: FAILED, unless that cannot be written either.
BuildFails(j) ==
  /\ build[j] # "rest" /\ Break
  /\ build' = [build EXCEPT ![j] = "rest"]
  /\ \/ job' = [job EXCEPT ![j].status = "failed", ![j].old = FALSE]
     \/ UNCHANGED job
  /\ UNCHANGED <<archive, ticket, caller, served>>

-----------------------------------------------------------------------------
(* Downloads. *)

\* status hands the token out when the job is ready; the token and the file are
\* looked at before the token is taken.
Peek(c, j) ==
  /\ caller[c] = Away
  /\ job[j].status = "ready" /\ job[j].token
  /\ ticket[j] = "live" /\ archive[j] \in {"open", "whole"}
  /\ caller' = [caller EXCEPT ![c] = [@ EXCEPT !.at = "take", !.export = j]]
  /\ UNCHANGED <<job, build, archive, ticket, served, breaks>>

\* GETDEL
Taken == "spent"

Take(c) ==
  LET j == caller[c].export
  IN  /\ caller[c].at = "take"
      /\ caller' = [caller EXCEPT ![c] = Away]
      /\ IF ticket[j] = "live"
         THEN /\ ticket' = [ticket EXCEPT ![j] = Taken]
              /\ served' = [served EXCEPT ![j] = IF @ < 2 THEN @ + 1 ELSE @]
         ELSE UNCHANGED <<ticket, served>>
      /\ UNCHANGED <<job, build, archive, breaks>>

-----------------------------------------------------------------------------
(* Time and restarts. *)

\* Nothing has touched the row for as long as the watchdog waits.
GrowsOld(j) ==
  /\ Active(j) /\ ~job[j].old /\ Break
  /\ job' = [job EXCEPT ![j].old = TRUE]
  /\ UNCHANGED <<build, archive, ticket, caller, served>>

Expire(j) ==
  /\ ticket[j] = "live" /\ Break
  /\ ticket' = [ticket EXCEPT ![j] = "spent"]
  /\ UNCHANGED <<job, build, archive, caller, served>>

\* sweep_expired_archives: by the age of the file; a build keeps it young.
Sweep(j) ==
  /\ archive[j] \in {"open", "whole"} /\ build[j] = "rest" /\ Break
  /\ archive' = [archive EXCEPT ![j] = "swept"]
  /\ UNCHANGED <<job, build, ticket, caller, served>>

Reaped(j) == Active(j) /\ job[j].old

ServiceRestarts ==
  /\ Break
  /\ build' = [j \in Export |-> "rest"]
  /\ caller' = [c \in Caller |-> Away]
  /\ job' = [j \in Export |-> IF Reaped(j) THEN [job[j] EXCEPT !.status = "failed", !.old = FALSE]
                              ELSE job[j]]
  /\ UNCHANGED <<archive, ticket, served>>

-----------------------------------------------------------------------------
ExportInitWith(n) ==
  /\ job = [j \in Export |-> NoJob] /\ build = [j \in Export |-> "rest"]
  /\ archive = [j \in Export |-> "none"] /\ ticket = [j \in Export |-> "none"]
  /\ caller = [c \in Caller |-> Away] /\ served = [j \in Export |-> 0]
  /\ breaks = n

ExportInit == ExportInitWith(MaxBreaks)

ExportNext ==
  \/ \E c \in Caller : Insert(c) \/ Take(c)
  \/ \E c \in Caller, s \in Scope : Look(c, s)
  \/ \E c \in Caller, j \in Export : Peek(c, j)
  \/ \E j \in Export :
       \/ Run(j) \/ Write(j) \/ Mint(j) \/ SetResult(j) \/ SetReady(j) \/ BuildFails(j)
       \/ GrowsOld(j) \/ Expire(j) \/ Sweep(j)
  \/ ServiceRestarts

ExportSpec == ExportInit /\ [][ExportNext]_exportVars

(***************************************************************************)
(* Properties.                                                             *)
(***************************************************************************)

\* Two exports of one scope are never built at once, whoever asks for them, and
\* a build is always behind an active row: nobody is told of another one.
OneBuildPerScope ==
  /\ \A j \in Export : build[j] # "rest" => Active(j)
  /\ \A i, j \in Export :
       i # j /\ build[i] # "rest" /\ build[j] # "rest" => job[i].scope # job[j].scope

\* A job that says it is ready has a token to hand out and a finished archive,
\* until the sweep takes the archive; a token is good for one download, however
\* many requests race for it.
ReadyServes ==
  \A j \in Export :
     /\ job[j].status = "ready" =>
          job[j].token /\ archive[j] \in {"whole", "swept"} /\ ticket[j] # "none"
     /\ served[j] <= 1

\* What the callers of the export service may rely on.
ExportsHonest == OneBuildPerScope /\ ReadyServes
=============================================================================
