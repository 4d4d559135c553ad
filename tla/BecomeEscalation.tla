-------------------------- MODULE BecomeEscalation --------------------------
(***************************************************************************)
(* What privilege escalation promises the host, whatever the become       *)
(* method: the remote side starts the wrapped command at most once, and   *)
(* may end without starting it; the host gives one verdict per task and   *)
(* never revises it; it reports success only once the command started;   *)
(* and a task never hangs: the host decides, or the remote side ends.     *)
(***************************************************************************)

CONSTANT Verdicts   \* the host's verdicts; "ready_to_send" is success

VARIABLES
    verdict,   \* "pending" until the host decides, then its verdict
    started,   \* the wrapped command has started
    over       \* the remote process has ended

avars == <<verdict, started, over>>

AInit ==
    /\ verdict = "pending"
    /\ started = FALSE
    /\ over = FALSE

(* The remote side starts the wrapped command. *)
StartCommand ==
    /\ ~started /\ ~over
    /\ started' = TRUE
    /\ UNCHANGED <<verdict, over>>

(* The remote process ends, with or without having started the command. *)
EndRemote ==
    /\ ~over
    /\ over' = TRUE
    /\ UNCHANGED <<verdict, started>>

(* The host decides, once; success needs a started command. *)
Decide(v) ==
    /\ verdict = "pending"
    /\ v = "ready_to_send" => started
    /\ verdict' = v
    /\ UNCHANGED <<started, over>>

ANext == StartCommand \/ EndRemote \/ \E v \in Verdicts : Decide(v)

(* No task hangs: a verdict is reached or the remote side ends. *)
NoHang == <>(verdict # "pending" \/ over)

ASpec == AInit /\ [][ANext]_avars /\ NoHang

=============================================================================
