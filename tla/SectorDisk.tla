----------------------------- MODULE SectorDisk -----------------------------
(***************************************************************************)
(* What the callers of read_sector() and write_sector() are promised: a    *)
(* disk on which each call takes effect at one moment between its begin    *)
(* and its return, whoever else is at it.                                  *)
(***************************************************************************)
CONSTANTS
    Client,     \* the threads that call
    Sector, Value,
    Request,    \* [type : "In", sector], [type : "Out", sector, data]
    None        \* no request, or nothing in the buffer

VARIABLES
    disk,       \* what each sector holds
    phase,      \* of each client: "idle", "called" or "done"
    req,        \* the request of each client that is not idle
    buf         \* what a client that reads has got

absVars == <<disk, phase, req, buf>>

Init ==
    /\ disk \in [Sector -> Value]
    /\ phase = [c \in Client |-> "idle"]
    /\ req = [c \in Client |-> None]
    /\ buf = [c \in Client |-> None]

Invoke(c) ==
    /\ phase[c] = "idle"
    /\ phase' = [phase EXCEPT ![c] = "called"]
    /\ \E r \in Request : req' = [req EXCEPT ![c] = r]
    /\ UNCHANGED <<disk, buf>>

Perform(c) ==
    /\ phase[c] = "called"
    /\ phase' = [phase EXCEPT ![c] = "done"]
    /\ IF req[c].type = "In"
       THEN /\ buf' = [buf EXCEPT ![c] = disk[req[c].sector]]
            /\ UNCHANGED disk
       ELSE /\ disk' = [disk EXCEPT ![req[c].sector] = req[c].data]
            /\ UNCHANGED buf
    /\ UNCHANGED req

Respond(c) ==
    /\ phase[c] = "done"
    /\ phase' = [phase EXCEPT ![c] = "idle"]
    /\ req' = [req EXCEPT ![c] = None]
    /\ buf' = [buf EXCEPT ![c] = None]
    /\ UNCHANGED disk

Next == \E c \in Client : Invoke(c) \/ Perform(c) \/ Respond(c)

Spec == Init /\ [][Next]_absVars
=============================================================================
