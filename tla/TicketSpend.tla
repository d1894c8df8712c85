----------------------------- MODULE TicketSpend -----------------------------
(***************************************************************************)
(* The spending of tickets in pySim/esim/aura: the responses that devices  *)
(* make (AuraLpaClient.run, create_auth_proof and the LocalTicketLog of    *)
(* local_ticket_log.py) and what the server makes of them                  *)
(* (AuraService.authenticate, classify_nullifier and recover_trace_key of  *)
(* double_spend.py, the nullifiers and the trace index of AuraStore).      *)
(*                                                                         *)
(* A ticket hides a scalar d, a device a key k.  A request answers a       *)
(* challenge gamma, the hash of its context ctx_t, with c = d + gamma k:   *)
(* two answers under one ticket yield k.  The scalars are those of a small *)
(* prime field, so that challenges may collide.                            *)
(*                                                                         *)
(* A device may run its ticket again, and end anywhere; a request that was *)
(* posted may be handled at any time, and again.  Contexts differ in their *)
(* transaction, which the server draws; proofs verify, so c is right.      *)
(***************************************************************************)
EXTENDS Integers, FiniteSets

CONSTANTS
    Device,
    Ticket,         \* a ticket stands for its nullifier nu
    Transaction,    \* bound on the sessions
    Opid,           \* what token_bytes(16) yields
    curve_order,
    k,              \* the tracing key of each device
    Indexed,        \* the devices that the trace index knows
    NoDevice, NoTicket, NoRequest

Scalar == 0..(curve_order - 1)

ASSUME SpendAssumption ==
    /\ curve_order \in Nat \ {0, 1}
    /\ \A x \in Scalar \ {0} : \E y \in Scalar : (x * y) % curve_order = 1
    /\ k \in [Device -> Scalar]
    /\ \A e, f \in Device : k[e] = k[f] => e = f
    /\ Indexed \subseteq Device
    /\ NoDevice \notin Device
    /\ NoTicket \notin Ticket

VARIABLES
    owner, d,   \* of the tickets: the device, and the scalar hidden in it
    ticket,     \* device.json: the ticket of each device
    log,        \* device.json: local_ticket_log, the requests by their (nu, opid)
    running,    \* the request that a device has saved and not posted yet
    opened,     \* the transactions the server has drawn
    posted,     \* requests that may be handled, now or later
    nullifier,  \* AuraStore: the request a ticket was spent with
    closed,     \* the sessions past "authenticated"
    verdicts    \* what the server has said of requests

vars == <<owner, d, ticket, log, running, opened, posted, nullifier, closed, verdicts>>

Request == [device : Device, ticket : Ticket, tx : Transaction, opid : Opid,
            gamma : Scalar, c : Scalar]

Outcome == {"new", "exact_replay", "opid_context_conflict", "zero_denominator",
            "double_spend"}

Verdict == [request : Request, outcome : Outcome, trace : Device \cup {NoDevice}]

ASSUME NoRequestAssumption == NoRequest \notin Request

-----------------------------------------------------------------------------
(* The device.                                                             *)

Unissued == {t \in Ticket : owner[t] = NoDevice}

\* issue_ticket; fresh_profile_lifecycle empties the log.
IssueTicket(e, t, d_value, fresh) ==
    /\ t \in Unissued
    /\ running[e] = NoRequest
    /\ owner' = [owner EXCEPT ![t] = e]
    /\ d' = [d EXCEPT ![t] = d_value]
    /\ ticket' = [ticket EXCEPT ![e] = t]
    /\ log' = IF fresh THEN [log EXCEPT ![e] = {}] ELSE log
    /\ UNCHANGED <<running, opened, posted, nullifier, closed, verdicts>>

\* create_auth_proof
Response(e, t, gamma) == (d[t] + gamma * k[e]) % curve_order

\* lookup_cached_auth_request: the context of another transaction is another context.
Logged(e, t, opid) == \E r \in log[e] : r.ticket = t /\ r.opid = opid

\* Mutant: the log is kept in memory until the post was answered.
RespondUnsaved(e, tx, opid, gamma) ==
    /\ running[e] = NoRequest
    /\ ticket[e] # NoTicket
    /\ tx \notin opened
    /\ opened' = opened \cup {tx}
    /\ ~Logged(e, ticket[e], opid)
    /\ running' = [running EXCEPT ![e] =
         [device |-> e, ticket |-> ticket[e], tx |-> tx, opid |-> opid,
          gamma |-> gamma, c |-> Response(e, ticket[e], gamma)]]
    /\ UNCHANGED <<owner, d, ticket, log, posted, nullifier, closed, verdicts>>

\* run: a transaction, an opid and a challenge of its own; the request is logged and
\* device.json saved before it is posted.
Respond(e, tx, opid, gamma) ==
    /\ running[e] = NoRequest
    /\ ticket[e] # NoTicket
    /\ tx \notin opened
    /\ opened' = opened \cup {tx}
    /\ IF Logged(e, ticket[e], opid)
       THEN UNCHANGED <<log, running>>      \* LocalTicketContextConflict
       ELSE LET r == [device |-> e, ticket |-> ticket[e], tx |-> tx, opid |-> opid,
                      gamma |-> gamma, c |-> Response(e, ticket[e], gamma)]
            IN  /\ log' = [log EXCEPT ![e] = @ \cup {r}]
                /\ running' = [running EXCEPT ![e] = r]
    /\ UNCHANGED <<owner, d, ticket, posted, nullifier, closed, verdicts>>

Post(e) ==
    /\ running[e] # NoRequest
    /\ posted' = posted \cup {running[e]}
    /\ running' = [running EXCEPT ![e] = NoRequest]
    /\ UNCHANGED <<owner, d, ticket, log, opened, nullifier, closed, verdicts>>

\* The device ends before it posts.
Crash(e) ==
    /\ running[e] # NoRequest
    /\ running' = [running EXCEPT ![e] = NoRequest]
    /\ UNCHANGED <<owner, d, ticket, log, opened, posted, nullifier, closed, verdicts>>

-----------------------------------------------------------------------------
(* The server.                                                             *)

mod_inv(x) == CHOOSE y \in Scalar : (x * y) % curve_order = 1

Denominator(old, new) == (old.gamma - new.gamma) % curve_order

\* Mutant: one of the differences is taken the other way round.
recover_trace_key_negated(old, new) ==
    ((new.c - old.c) * mod_inv(Denominator(old, new))) % curve_order

recover_trace_key(old, new) ==
    ((old.c - new.c) * mod_inv(Denominator(old, new))) % curve_order

lookup_trace(key) ==
    IF \E e \in Indexed : k[e] = key THEN CHOOSE e \in Indexed : k[e] = key ELSE NoDevice

\* Mutant: a replay is known by its response, not by the hash of the whole request.
classify_by_response(existing, r) ==
    IF existing = NoRequest THEN "new"
    ELSE IF existing.gamma = r.gamma /\ existing.c = r.c THEN "exact_replay"
    ELSE IF existing.opid = r.opid THEN "opid_context_conflict"
    ELSE "double_spend"

classify_nullifier(existing, r) ==
    IF existing = NoRequest THEN "new"
    ELSE IF existing = r THEN "exact_replay"
    ELSE IF existing.opid = r.opid THEN "opid_context_conflict"
    ELSE IF Denominator(existing, r) = 0 THEN "zero_denominator"
    ELSE "double_spend"

\* authenticate, for a request that verifies.
Authenticate(r) ==
    LET existing == nullifier[r.ticket]
        outcome == classify_nullifier(existing, r)
    IN  /\ r.tx \notin closed
        /\ nullifier' = IF outcome = "new" THEN [nullifier EXCEPT ![r.ticket] = r]
                        ELSE nullifier
        /\ verdicts' = verdicts \cup
             {[request |-> r, outcome |-> outcome,
               trace |-> IF outcome = "double_spend"
                         THEN lookup_trace(recover_trace_key(existing, r)) ELSE NoDevice]}
        /\ UNCHANGED <<owner, d, ticket, log, running, opened, posted, closed>>

\* _prepare_keys: the session is past authentication, and replays are refused.
Proceed(tx) ==
    /\ \E t \in Ticket : nullifier[t] # NoRequest /\ nullifier[t].tx = tx
    /\ tx \notin closed
    /\ closed' = closed \cup {tx}
    /\ UNCHANGED <<owner, d, ticket, log, running, opened, posted, nullifier, verdicts>>

-----------------------------------------------------------------------------
Init ==
    /\ owner = [t \in Ticket |-> NoDevice]
    /\ d = [t \in Ticket |-> 0]
    /\ ticket = [e \in Device |-> NoTicket]
    /\ log = [e \in Device |-> {}]
    /\ running = [e \in Device |-> NoRequest]
    /\ opened = {}
    /\ posted = {}
    /\ nullifier = [t \in Ticket |-> NoRequest]
    /\ closed = {}
    /\ verdicts = {}

Next ==
    \/ \E e \in Device, t \in Ticket, d_value \in Scalar, fresh \in BOOLEAN :
         IssueTicket(e, t, d_value, fresh)
    \/ \E e \in Device, tx \in Transaction, opid \in Opid, gamma \in Scalar :
         Respond(e, tx, opid, gamma)
    \/ \E e \in Device : Post(e)
    \/ \E e \in Device : Crash(e)
    \/ \E r \in posted : Authenticate(r)
    \/ \E tx \in Transaction : Proceed(tx)

Spec == Init /\ [][Next]_vars

-----------------------------------------------------------------------------
TypeOK ==
    /\ owner \in [Ticket -> Device \cup {NoDevice}]
    /\ d \in [Ticket -> Scalar]
    /\ ticket \in [Device -> Ticket \cup {NoTicket}]
    /\ log \in [Device -> SUBSET Request]
    /\ running \in [Device -> Request \cup {NoRequest}]
    /\ opened \subseteq Transaction
    /\ posted \subseteq Request
    /\ nullifier \in [Ticket -> Request \cup {NoRequest}]
    /\ closed \subseteq Transaction
    /\ verdicts \subseteq Verdict

(* A double spend is traced to the device that answered two challenges under the ticket,
   if the index knows it, and to no other: whichever of the two requests arrives first,
   and whatever other devices do (double_spend.py:27-43, 70-80). *)
TraceNamesSpender ==
    \A v \in verdicts :
      LET spender == owner[v.request.ticket]
      IN  /\ v.trace # NoDevice =>
               /\ v.trace = spender
               /\ \E r \in posted \ {v.request} : r.device = spender /\ r.ticket = v.request.ticket
          /\ v.outcome = "double_spend" /\ spender \in Indexed => v.trace = spender

(* A ticket is taken with one request, which may be answered again; every other request
   made with it is told apart, however late it comes (service.py:328-403). *)
TakenWithOneRequest ==
    \A v, w \in verdicts :
      /\ v.request.ticket = w.request.ticket
      /\ v.outcome \in {"new", "exact_replay"} /\ w.outcome \in {"new", "exact_replay"}
      => v.request = w.request

(* "Persist a complete request so exact retries never create a new response"
   (local_ticket_log.py:72): under one opid a ticket answers one challenge, also when the
   device ends between the save and the post. *)
OneResponsePerOpid ==
    \A r, s \in posted : r.ticket = s.ticket /\ r.opid = s.opid => r = s
=============================================================================
