----------------------------- MODULE SchemeFaults -----------------------------
(***************************************************************************)
(* SchemeIPC with a provider that does not keep to the protocol.           *)
(* SchemeServerResource::write inserts whatever id the packet carries: the *)
(* provider may answer a call it has not read yet, or answer one a second  *)
(* time.  Nothing in the kernel checks the id against todo or the ids it  *)
(* handed out.                                                             *)
(***************************************************************************)
EXTENDS SchemeIPC

(* SchemeServerResource::write of a packet the provider made up: the id   *)
(* of a blocked call, whether or not recv handed it out or it was already *)
(* answered.                                                               *)
StrayReply(c, w) ==
    /\ alive
    /\ pc[c] = "wait"
    /\ done' = (req[c].id :> [word |-> w, for |-> c]) @@ done
    /\ UNCHANGED <<refs, registered, next_id, todo, memory, inbox, pc, req,
                   file_id, ret, calls>>

FaultyNext == Next \/ \E c \in Clients, w \in ReplyWords : StrayReply(c, w)

FaultySpec == Init /\ [][FaultyNext]_vars

(* Every request the provider still has to serve, pending in todo or read  *)
(* into its inbox, belongs to a call that is still blocked on it: the      *)
(* provider never serves a call whose caller has returned and whose buffer *)
(* view was retired (its address is the next view's, next_mem being the    *)
(* lowest free one).                                                       *)
RequestsHaveCallers ==
    /\ \A id \in DOMAIN todo :
         LET c == todo[id].from IN pc[c] = "wait" /\ req[c].id = id
    /\ \A p \in inbox : pc[p.from] = "wait" /\ req[p.from].id = p.id

=============================================================================
