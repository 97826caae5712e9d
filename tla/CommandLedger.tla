---------------------------- MODULE CommandLedger ----------------------------
(***************************************************************************)
(* What the runner promises whoever issues commands, with nothing of how:  *)
(* a command keeps its place and its kind; a sync command is given a       *)
(* verdict only once a cycle was started for it; any other gets one        *)
(* verdict, which is final, and only a service command's can be a failure. *)
(***************************************************************************)
EXTENDS Sequences

VARIABLES board,  \* the commands, each with its kind and its status
          ran     \* the sync commands a cycle was started for

vars == <<board, ran>>

Verdicts == {"completed", "failed"}

IsSync(c) == board[c].kind = "trigger_sync"

\* No verdict was given yet; of a sync command, which may be delivered and run
\* again after its verdict, this is not asked.
Open(c) == IsSync(c) \/ board[c].status \notin Verdicts

Becomes(c, status) == board' = [board EXCEPT ![c].status = status]

Init == board = <<>> /\ ran = {}

Issue ==
  \E kind \in {"trigger_sync", "pause", "resume", "service"} :
    /\ board' = Append(board, [kind |-> kind, status |-> "pending"])
    /\ UNCHANGED ran

Acknowledge(c) == Open(c) /\ Becomes(c, "acknowledged") /\ UNCHANGED ran

Run(c) == IsSync(c) /\ ran' = ran \cup {c} /\ UNCHANGED board

Decide(c, verdict) ==
  /\ Open(c)
  /\ IsSync(c) => c \in ran
  /\ verdict = "failed" => board[c].kind \in {"trigger_sync", "service"}
  /\ Becomes(c, verdict) /\ UNCHANGED ran

Next ==
  \/ Issue
  \/ \E c \in DOMAIN board : \/ Acknowledge(c) \/ Run(c)
                             \/ \E verdict \in Verdicts : Decide(c, verdict)

Spec == Init /\ [][Next]_vars
=============================================================================
