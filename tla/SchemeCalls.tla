----------------------------- MODULE SchemeCalls -----------------------------
(***************************************************************************)
(* What a scheme promises its clients (design spec 4.1, 4.3, 7): a call   *)
(* on a live scheme either fails locally or blocks until the provider     *)
(* answers that very call, and then returns the answer decoded; once the  *)
(* provider is gone, every blocked and every later call fails with EBADF. *)
(* No ids, maps, packets or views: one pending operation per client and   *)
(* at most one answer to it.                                               *)
(***************************************************************************)
EXTENDS Integers

CONSTANTS Clients, ReplyWords, Ops, UnitOps, NoFile, EBADF, EFAULT

None == "none"

VARIABLES
    alive,      \* some provider handle exists
    waiting,    \* the op a client is blocked in, or None
    answer,     \* the provider's answer to that op: {} or {word}
    file_id,    \* the open file of the client, or NoFile
    ret         \* what the client's last call returned

FileOps == Ops \ {"OPEN", "MKDIR", "UNLINK"}
Mapped  == {"READ", "WRITE", "FPATH"}

(* Error::demux: a word below zero is an error; ops returning () drop it. *)
Decode(op, w) == IF w < 0 \/ op \notin UnitOps THEN w ELSE 0

(* A client may call a file op on its open file, open when it has none,   *)
(* and mkdir or unlink at any time.                                        *)
Callable(c, op) ==
    CASE op = "OPEN"            -> file_id[c] = NoFile
      [] op \in FileOps         -> file_id[c] # NoFile
      [] OTHER                  -> TRUE

Submit(c, op) ==
    /\ alive
    /\ waiting[c] = None
    /\ Callable(c, op)
    /\ waiting' = [waiting EXCEPT ![c] = op]
    /\ UNCHANGED <<alive, answer, file_id, ret>>

(* A call that fails before submitting: an unmapped buffer, a dead scheme *)
(* (close then just forgets the file).                                     *)
FailLocally(c, op) ==
    /\ waiting[c] = None
    /\ op \in FileOps
    /\ file_id[c] # NoFile
    /\ \/ op \in Mapped /\ ret' = [ret EXCEPT ![c] = -EFAULT] /\ UNCHANGED file_id
       \/ ~alive /\ op # "CLOSE" /\ ret' = [ret EXCEPT ![c] = -EBADF]
                 /\ UNCHANGED file_id
       \/ ~alive /\ op = "CLOSE" /\ file_id' = [file_id EXCEPT ![c] = NoFile]
                 /\ UNCHANGED ret
    /\ UNCHANGED <<alive, waiting, answer>>

Answer(c, w) ==
    /\ alive
    /\ waiting[c] # None
    /\ answer[c] = {}
    /\ answer' = [answer EXCEPT ![c] = {w}]
    /\ UNCHANGED <<alive, waiting, file_id, ret>>

Return(c) ==
    LET op == waiting[c]
        w  == CHOOSE x \in answer[c] : TRUE
    IN
    /\ alive
    /\ waiting[c] # None
    /\ answer[c] # {}
    /\ ret' = IF op = "CLOSE" THEN ret ELSE [ret EXCEPT ![c] = Decode(op, w)]
    /\ file_id' = CASE op = "OPEN" /\ w >= 0 -> [file_id EXCEPT ![c] = w]
                    [] op = "CLOSE"        -> [file_id EXCEPT ![c] = NoFile]
                    [] OTHER               -> file_id
    /\ waiting' = [waiting EXCEPT ![c] = None]
    /\ answer' = [answer EXCEPT ![c] = {}]
    /\ UNCHANGED alive

ReturnDead(c) ==
    /\ ~alive
    /\ waiting[c] # None
    /\ ret' = IF waiting[c] = "CLOSE" THEN ret ELSE [ret EXCEPT ![c] = -EBADF]
    /\ file_id' = IF waiting[c] = "CLOSE" THEN [file_id EXCEPT ![c] = NoFile]
                  ELSE file_id
    /\ waiting' = [waiting EXCEPT ![c] = None]
    /\ UNCHANGED <<alive, answer>>

(* The last provider handle goes, and with it every unread answer.         *)
Die ==
    /\ alive
    /\ alive' = FALSE
    /\ answer' = [c \in Clients |-> {}]
    /\ UNCHANGED <<waiting, file_id, ret>>

Init ==
    /\ alive = TRUE
    /\ waiting = [c \in Clients |-> None]
    /\ answer = [c \in Clients |-> {}]
    /\ file_id = [c \in Clients |-> NoFile]
    /\ ret = [c \in Clients |-> 0]

Next ==
    \/ \E c \in Clients :
         \/ \E op \in Ops : Submit(c, op) \/ FailLocally(c, op)
         \/ \E w \in ReplyWords : Answer(c, w)
         \/ Return(c)
         \/ ReturnDead(c)
    \/ Die

Spec == Init /\ [][Next]_<<alive, waiting, answer, file_id, ret>>

=============================================================================
