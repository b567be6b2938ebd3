------------------------------- MODULE Support ------------------------------
(***************************************************************************)
(* One support ticket (apps/support/models.py, serializers.py): its        *)
(* student writes to it and closes it (views.py), the staff answers and    *)
(* changes it (admin_api.py).                                              *)
(*                                                                         *)
(* Every handler fetches the ticket and writes later, without a lock: the  *)
(* columns it names, or, for a PATCH by the staff, the whole row as it was *)
(* fetched.  Of resolved_at only whether it is set matters.                *)
(***************************************************************************)
EXTENDS Naturals, FiniteSets

CONSTANT TicketRequests     \* handlers at a time

VARIABLES
  ticket,     \* the SupportTicket row
  clerk       \* what each handler fetched and does next

supportVars == <<ticket, clerk>>

TicketStatuses == {"open", "in_progress", "waiting_user", "resolved", "closed"}
FinalStatuses  == {"resolved", "closed"}
TicketRows     == [status: TicketStatuses, resolved: BOOLEAN]
NoTicket       == [status |-> "none", resolved |-> FALSE]
Off            == [op |-> "off"]
TicketOps      == {"message", "close", "answer", "note", "patch"}

SupportTypeOK ==
  /\ ticket \in TicketRows \cup {NoTicket}
  /\ \A r \in TicketRequests : clerk[r] = Off \/ (clerk[r].op \in TicketOps /\ clerk[r].seen \in TicketRows)

SupportInit == ticket = NoTicket /\ clerk = [r \in TicketRequests |-> Off]

(* SupportTicketCreateSerializer.create, in one transaction. *)
OpenTicket ==
  /\ ticket = NoTicket
  /\ ticket' = [status |-> "open", resolved |-> FALSE]
  /\ UNCHANGED clerk

(* get_object, and the student's add_message refused on a closed ticket. *)
FetchTicket(r, op) ==
  /\ ticket # NoTicket /\ clerk[r] = Off
  /\ op = "message" => ticket.status # "closed"
  /\ clerk' = [clerk EXCEPT ![r] = [op |-> op, seen |-> ticket]]
  /\ UNCHANGED ticket

Reply(r, op) == clerk[r].op = op /\ clerk' = [clerk EXCEPT ![r] = Off]

(* add_message of the student *)
AddMessage(r) ==
  /\ Reply(r, "message")
  /\ ticket' = IF clerk[r].seen.status = "waiting_user" THEN [ticket EXCEPT !.status = "open"] ELSE ticket

(* close; resolved_at is the one that was fetched, or now. *)
Close(r) ==
  /\ Reply(r, "close")
  /\ ticket' = [status |-> "closed", resolved |-> TRUE]

(* add_message of the staff: an answer waits for the student, even on a   *)
(* closed ticket; an internal note changes nothing.                       *)
AnswerTicket(r) ==
  /\ Reply(r, "answer")
  /\ ticket' = [ticket EXCEPT !.status = "waiting_user"]
AddNote(r) == Reply(r, "note") /\ UNCHANGED ticket

(* Mutant: resolved_at is left as it was. *)
PatchedOnly(seen, status) ==
  [seen EXCEPT !.status = IF status = "kept" THEN @ ELSE status]

(* AdminSupportTicketSerializer.validate, for a PATCH that names a status, *)
(* and one that does not ("kept").                                         *)
Patched(seen, status) ==
  [status   |-> IF status = "kept" THEN seen.status ELSE status,
   resolved |-> IF status = "kept" THEN (seen.resolved \/ seen.status \in FinalStatuses)
                ELSE status \in FinalStatuses]

PatchTicket(r, status) ==
  /\ Reply(r, "patch")
  /\ ticket' = Patched(clerk[r].seen, status)

SupportNext ==
  \/ OpenTicket
  \/ \E r \in TicketRequests :
       \/ \E op \in TicketOps : FetchTicket(r, op)
       \/ AddMessage(r) \/ Close(r) \/ AnswerTicket(r) \/ AddNote(r)
       \/ \E status \in TicketStatuses \cup {"kept"} : PatchTicket(r, status)

SupportSpec == SupportInit /\ [][SupportNext]_supportVars

(* However handlers overlap, a ticket that is resolved or closed says when. *)
FinalSaysWhen == ticket.status \in FinalStatuses => ticket.resolved

=============================================================================
