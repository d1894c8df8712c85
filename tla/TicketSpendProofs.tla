------------------------- MODULE TicketSpendProofs ---------------------------
(***************************************************************************)
(* Proofs about TicketSpend, for every prime curve_order, any sets of      *)
(* devices, tickets and sessions, and any number of runs.                  *)
(*                                                                         *)
(* What is said of verdicts follows from what the requests are: each one   *)
(* answers with the scalar of its ticket and the key of the ticket's       *)
(* owner, also one that is still saved and not posted.  That an opid is    *)
(* answered once follows from the log, but only for the ticket that a      *)
(* device holds: an issue of a new one may empty the log.                  *)
(***************************************************************************)
EXTENDS TicketSpend, TLAPS

-----------------------------------------------------------------------------
(* Arithmetic modulo curve_order.                                          *)

LEMMA Order == curve_order \in Nat \ {0} /\ Scalar = 0..(curve_order - 1) /\ Scalar \subseteq Int
  BY SpendAssumption DEF Scalar

\* A number is a multiple of the modulus and its remainder, ...
LEMMA Division ==
    ASSUME NEW a \in Int
    PROVE  /\ a % curve_order \in Scalar
           /\ \E m \in Int : a = (m * curve_order) + (a % curve_order)
<1>1. a % curve_order \in Scalar
  BY Order
<1>2. a = ((a \div curve_order) * curve_order) + (a % curve_order)
  BY Order
<1>3. a \div curve_order \in Int
  BY Order
<1>4. QED
  BY <1>1, <1>2, <1>3

\* ... which it has only one of.
LEMMA Remainder ==
    ASSUME NEW m \in Int, NEW b \in Scalar
    PROVE  ((m * curve_order) + b) % curve_order = b
  BY Order

\* create_auth_proof answers with a scalar.
LEMMA ResponseScalar ==
    ASSUME NEW secret \in Scalar, NEW gamma \in Scalar, NEW key \in Scalar
    PROVE  (secret + (gamma * key)) % curve_order \in Scalar
<1>1. secret + (gamma * key) \in Int
  BY Order
<1>2. QED
  BY <1>1, Division

\* mod_inv yields an inverse (bbs.py:31-35).
LEMMA Inverse ==
    ASSUME NEW x \in Scalar, x # 0
    PROVE  mod_inv(x) \in Scalar /\ (x * mod_inv(x)) % curve_order = 1
  BY SpendAssumption DEF mod_inv

(* Two answers to different challenges, made with the same scalar and key, yield the key,
   whatever the prime (recover_trace_key, double_spend.py:27-43). *)
THEOREM Recovery ==
    ASSUME NEW old, NEW new, NEW secret \in Scalar, NEW key \in Scalar,
           old.gamma \in Scalar, new.gamma \in Scalar,
           old.c = (secret + (old.gamma * key)) % curve_order,
           new.c = (secret + (new.gamma * key)) % curve_order,
           Denominator(old, new) # 0
    PROVE  recover_trace_key(old, new) = key
<1> DEFINE q == curve_order
           g1 == old.gamma
           g2 == new.gamma
           D == Denominator(old, new)
           y == mod_inv(D)
<1>1. q \in Int /\ secret \in Int /\ key \in Int /\ g1 \in Int /\ g2 \in Int
  BY Order
<1>2. PICK m1 \in Int : secret + (g1 * key) = (m1 * q) + old.c
  <2>1. secret + (g1 * key) \in Int
    BY <1>1
  <2>2. QED
    BY <2>1, Division
<1>3. PICK m2 \in Int : secret + (g2 * key) = (m2 * q) + new.c
  <2>1. secret + (g2 * key) \in Int
    BY <1>1
  <2>2. QED
    BY <2>1, Division
<1>4. D \in Scalar /\ \E m3 \in Int : g1 - g2 = (m3 * q) + D
  <2>1. g1 - g2 \in Int
    BY <1>1
  <2>2. QED
    BY <2>1, Division DEF Denominator
<1>5. PICK m3 \in Int : g1 - g2 = (m3 * q) + D
  BY <1>4
<1>6. y \in Scalar /\ (D * y) % q = 1
  BY <1>4, Inverse
<1>7. D \in Int /\ y \in Int /\ old.c \in Int /\ new.c \in Int
  <2>1. old.c \in Scalar /\ new.c \in Scalar
    BY ResponseScalar
  <2>2. QED
    BY <1>4, <1>6, <2>1, Order
<1>8. PICK m4 \in Int : D * y = (m4 * q) + 1
  <2>1. D * y \in Int
    BY <1>7
  <2>2. PICK m \in Int : D * y = (m * q) + ((D * y) % q)
    BY <2>1, Division
  <2>3. QED
    BY <1>6, <2>2
<1> HIDE DEF q, g1, g2, D, y
<1>9. ASSUME NEW u \in Int, NEW v \in Int, NEW w \in Int,
             u = (key * m3) + m2, v = u - m1, w = (key * m4) + (v * y)
      PROVE  (old.c - new.c) * y = (w * q) + key
  <2>1. old.c - new.c = ((g1 - g2) * key) - ((m1 - m2) * q)
    <3>1. ((g1 - g2) * key) = (g1 * key) - (g2 * key)
      BY <1>1
    <3>2. (m1 - m2) * q = (m1 * q) - (m2 * q)
      BY <1>1
    <3>3. QED
      BY <1>1, <1>2, <1>3, <1>7, <3>1, <3>2
  <2>2. (g1 - g2) * key = ((key * m3) * q) + (D * key)
    BY <1>1, <1>5, <1>7
  <2>3. old.c - new.c = (v * q) + (D * key)
    <3>1. v * q = ((key * m3) * q) + (m2 * q) - (m1 * q)
      BY <1>1, <1>9
    <3>2. (m1 - m2) * q = (m1 * q) - (m2 * q)
      BY <1>1
    <3>3. QED
      BY <1>1, <1>7, <1>9, <2>1, <2>2, <3>1, <3>2
  <2>4. (old.c - new.c) * y = ((v * y) * q) + ((D * y) * key)
    BY <1>1, <1>7, <1>9, <2>3
  <2>5. (D * y) * key = ((key * m4) * q) + key
    BY <1>1, <1>7, <1>8
  <2>6. w * q = ((key * m4) * q) + ((v * y) * q)
    BY <1>1, <1>7, <1>9
  <2>7. QED
    BY <1>1, <1>7, <1>9, <2>4, <2>5, <2>6
<1>10. PICK w \in Int : (old.c - new.c) * y = (w * q) + key
  <2>1. /\ (key * m3) + m2 \in Int
        /\ ((key * m3) + m2) - m1 \in Int
        /\ (key * m4) + ((((key * m3) + m2) - m1) * y) \in Int
    BY <1>1, <1>7
  <2>2. QED
    BY <1>9, <2>1
<1>11. recover_trace_key(old, new) = ((old.c - new.c) * y) % q
  BY DEF recover_trace_key, y, D, q
<1>12. ((w * q) + key) % q = key
  BY Remainder DEF q
<1>13. QED
  BY <1>10, <1>11, <1>12

-----------------------------------------------------------------------------
(* The inductive invariant.                                                *)

Saved == {running[e] : e \in Device} \ {NoRequest}

\* A request answers with what its ticket hides, for the device the ticket was issued to.
Answers(r) ==
    /\ r.device = owner[r.ticket]
    /\ r.c = Response(owner[r.ticket], r.ticket, r.gamma)

Honest == \A r \in posted \cup Saved : Answers(r)

HoldsOwn == \A e \in Device : ticket[e] # NoTicket => owner[ticket[e]] = e

\* The log has every request of the ticket that its device holds.
LogComplete ==
    \A r \in posted \cup Saved : ticket[r.device] = r.ticket => r \in log[r.device]

OncePerOpid ==
    \A r, s \in posted \cup Saved : r.ticket = s.ticket /\ r.opid = s.opid => r = s

\* What the server keeps and says is about requests that were posted, and the request a
\* ticket was taken with is the one that is kept.
Answered ==
    /\ \A t \in Ticket :
         nullifier[t] # NoRequest => nullifier[t] \in posted /\ nullifier[t].ticket = t
    /\ \A v \in verdicts : v.request \in posted
    /\ \A v \in verdicts :
         v.outcome \in {"new", "exact_replay"} => nullifier[v.request.ticket] = v.request

IInv ==
    /\ TypeOK
    /\ Honest
    /\ HoldsOwn
    /\ LogComplete
    /\ OncePerOpid
    /\ Answered
    /\ TraceNamesSpender

LEMMA InitIInv == Init => IInv
<1> SUFFICES ASSUME Init PROVE IInv
  OBVIOUS
<1> USE DEF Init
<1>1. 0 \in Scalar
  BY Order
<1>2. TypeOK
  BY <1>1 DEF TypeOK
<1>3. Saved = {}
  BY DEF Saved
<1>4. Honest /\ LogComplete /\ OncePerOpid
  BY <1>3 DEF Honest, LogComplete, OncePerOpid
<1>5. HoldsOwn /\ Answered /\ TraceNamesSpender
  BY DEF HoldsOwn, Answered, TraceNamesSpender
<1>6. QED
  BY <1>2, <1>4, <1>5 DEF IInv

\* A scalar, an answer and a request of the model are of their types.
LEMMA NewRequest ==
    ASSUME TypeOK, NEW e \in Device, NEW tx \in Transaction, NEW opid \in Opid,
           NEW gamma \in Scalar, ticket[e] # NoTicket
    PROVE  [device |-> e, ticket |-> ticket[e], tx |-> tx, opid |-> opid,
            gamma |-> gamma, c |-> Response(e, ticket[e], gamma)] \in Request
<1>1. ticket[e] \in Ticket /\ d[ticket[e]] \in Scalar
  BY DEF TypeOK
<1>2. k[e] \in Scalar
  BY SpendAssumption
<1>3. Response(e, ticket[e], gamma) \in Scalar
  BY <1>1, <1>2, ResponseScalar DEF Response
<1>4. QED
  BY <1>1, <1>3 DEF Request

LEMMA IssueStep ==
    ASSUME IInv, NEW e \in Device, NEW t \in Ticket, NEW d_value \in Scalar,
           NEW fresh \in BOOLEAN, IssueTicket(e, t, d_value, fresh)
    PROVE  IInv'
<1> USE DEF IssueTicket, IInv
<1>1. TypeOK'
  BY DEF TypeOK
<1>2. Saved' = Saved
  BY DEF Saved
<1>3. \A r \in posted \cup Saved : r \in Request /\ r.ticket # t
  <2> SUFFICES ASSUME NEW r \in posted \cup Saved
               PROVE  r \in Request /\ r.ticket # t
    OBVIOUS
  <2>1. r \in Request
    BY DEF TypeOK, Saved
  <2>2. r.device \in Device
    BY <2>1 DEF Request
  <2>3. owner[r.ticket] = r.device
    BY DEF Honest, Answers
  <2>4. QED
    BY <2>1, <2>2, <2>3, SpendAssumption DEF Unissued
<1>4. Honest'
  BY <1>2, <1>3 DEF Honest, Answers, Response, TypeOK
<1>5. HoldsOwn'
  BY SpendAssumption DEF HoldsOwn, TypeOK, Unissued
<1>6. LogComplete'
  <2> SUFFICES ASSUME NEW r \in posted \cup Saved, ticket'[r.device] = r.ticket
               PROVE  r \in log'[r.device]
    BY <1>2 DEF LogComplete
  <2>1. r.device \in Device
    BY <1>3 DEF Request
  <2>2. r.device # e
    BY <1>3 DEF TypeOK
  <2>3. QED
    BY <2>1, <2>2 DEF LogComplete, TypeOK
<1>7. OncePerOpid'
  BY <1>2 DEF OncePerOpid
<1>8. Answered'
  BY DEF Answered
<1>9. TraceNamesSpender'
  <2>1. \A v \in verdicts : owner'[v.request.ticket] = owner[v.request.ticket]
    BY <1>3 DEF Answered, TypeOK
  <2>2. QED
    BY <2>1 DEF TraceNamesSpender
<1>10. QED
  BY <1>1, <1>4, <1>5, <1>6, <1>7, <1>8, <1>9

LEMMA RespondStep ==
    ASSUME IInv, NEW e \in Device, NEW tx \in Transaction, NEW opid \in Opid,
           NEW gamma \in Scalar, Respond(e, tx, opid, gamma)
    PROVE  IInv'
<1> DEFINE t == ticket[e]
           r == [device |-> e, ticket |-> t, tx |-> tx, opid |-> opid,
                 gamma |-> gamma, c |-> Response(e, t, gamma)]
<1>1. r \in Request /\ t \in Ticket
  BY NewRequest DEF Respond, IInv, TypeOK
<1>2. CASE Logged(e, t, opid)
  <2>1. UNCHANGED <<owner, d, ticket, log, running, posted, nullifier, closed, verdicts>>
    BY <1>2 DEF Respond
  <2>2. TypeOK'
    BY <2>1 DEF Respond, IInv, TypeOK
  <2>3. QED
    BY <2>1, <2>2 DEF IInv, Honest, Answers, Response, HoldsOwn, LogComplete, OncePerOpid,
                      Answered, TraceNamesSpender, Saved
<1>3. CASE ~Logged(e, t, opid)
  <2>1. /\ running' = [running EXCEPT ![e] = r]
        /\ log' = [log EXCEPT ![e] = @ \cup {r}]
        /\ opened' = opened \cup {tx}
        /\ UNCHANGED <<owner, d, ticket, posted, nullifier, closed, verdicts>>
        /\ t # NoTicket
    BY <1>3 DEF Respond
  <2> HIDE DEF r
  <2>2. TypeOK'
    BY <1>1, <2>1 DEF IInv, TypeOK
  <2>3. Saved' \subseteq Saved \cup {r}
    BY <2>1 DEF Saved, IInv, TypeOK
  <2>4. r.device = e /\ r.ticket = t /\ r.opid = opid /\ Answers(r)
    BY <2>1 DEF r, IInv, HoldsOwn, Answers
  <2>5. Honest'
    BY <2>1, <2>3, <2>4 DEF IInv, Honest, Answers, Response
  <2>6. LogComplete'
    BY <2>1, <2>3, <2>4 DEF IInv, LogComplete, TypeOK
  <2>7. \A s \in posted \cup Saved : s.ticket = t => s.opid # opid
    <3> SUFFICES ASSUME NEW s \in posted \cup Saved, s.ticket = t
                 PROVE  s.opid # opid
      OBVIOUS
    <3>1. s.device = e
      BY <2>1 DEF IInv, Honest, Answers, HoldsOwn
    <3>2. s \in log[e]
      BY <3>1 DEF IInv, LogComplete
    <3>3. QED
      BY <1>3, <3>2 DEF Logged
  <2>8. OncePerOpid'
    BY <2>1, <2>3, <2>4, <2>7 DEF IInv, OncePerOpid
  <2>9. HoldsOwn' /\ Answered' /\ TraceNamesSpender'
    BY <2>1 DEF IInv, HoldsOwn, Answered, TraceNamesSpender
  <2>10. QED
    BY <2>2, <2>5, <2>6, <2>8, <2>9 DEF IInv
<1>4. QED
  BY <1>2, <1>3

LEMMA PostStep ==
    ASSUME IInv, NEW e \in Device, Post(e)
    PROVE  IInv'
<1> USE DEF Post, IInv
<1>1. TypeOK'
  BY DEF TypeOK
<1>2. (posted \cup Saved)' \subseteq posted \cup Saved
  BY DEF Saved, TypeOK
<1>3. Honest' /\ LogComplete' /\ OncePerOpid'
  BY <1>2 DEF Honest, Answers, Response, LogComplete, OncePerOpid
<1>4. HoldsOwn' /\ Answered'
  BY DEF HoldsOwn, Answered
<1>5. TraceNamesSpender'
  BY DEF TraceNamesSpender
<1>6. QED
  BY <1>1, <1>3, <1>4, <1>5

LEMMA CrashStep ==
    ASSUME IInv, NEW e \in Device, Crash(e)
    PROVE  IInv'
<1> USE DEF Crash, IInv
<1>1. TypeOK'
  BY DEF TypeOK
<1>2. (posted \cup Saved)' \subseteq posted \cup Saved
  BY DEF Saved, TypeOK
<1>3. Honest' /\ LogComplete' /\ OncePerOpid'
  BY <1>2 DEF Honest, Answers, Response, LogComplete, OncePerOpid
<1>4. HoldsOwn' /\ Answered' /\ TraceNamesSpender'
  BY DEF HoldsOwn, Answered, TraceNamesSpender
<1>5. QED
  BY <1>1, <1>3, <1>4

\* The trace index finds a device by its key, if it knows it.
LEMMA Lookup ==
    ASSUME NEW e \in Device
    PROVE  lookup_trace(k[e]) = IF e \in Indexed THEN e ELSE NoDevice
<1>1. \A f \in Indexed : k[f] = k[e] => f = e
  BY SpendAssumption
<1>2. CASE e \in Indexed
  <2>1. (CHOOSE f \in Indexed : k[f] = k[e]) = e
    BY <1>1, <1>2
  <2>2. QED
    BY <1>2, <2>1 DEF lookup_trace
<1>3. CASE e \notin Indexed
  BY <1>1, <1>3 DEF lookup_trace
<1>4. QED
  BY <1>2, <1>3

LEMMA AuthenticateStep ==
    ASSUME IInv, NEW r \in posted, Authenticate(r)
    PROVE  IInv'
<1> DEFINE existing == nullifier[r.ticket]
           outcome == classify_nullifier(existing, r)
           trace == IF outcome = "double_spend"
                    THEN lookup_trace(recover_trace_key(existing, r)) ELSE NoDevice
           v == [request |-> r, outcome |-> outcome, trace |-> trace]
           spender == owner[r.ticket]
<1>1. /\ nullifier' = IF outcome = "new" THEN [nullifier EXCEPT ![r.ticket] = r]
                      ELSE nullifier
      /\ verdicts' = verdicts \cup {v}
      /\ UNCHANGED <<owner, d, ticket, log, running, opened, posted, closed>>
  BY DEF Authenticate
<1>2. r \in Request /\ r.ticket \in Ticket /\ r.device \in Device /\ r.gamma \in Scalar
  BY DEF IInv, TypeOK, Request
<1>3. spender = r.device /\ spender \in Device
  BY <1>2 DEF IInv, Honest, Answers
<1>4. r # NoRequest
  BY <1>2, NoRequestAssumption
<1>5. /\ outcome \in Outcome
      /\ outcome = "new" <=> existing = NoRequest
      /\ outcome = "exact_replay" => existing = r
      /\ outcome = "double_spend" =>
           existing # NoRequest /\ existing # r /\ Denominator(existing, r) # 0
  BY <1>4 DEF classify_nullifier, Outcome
<1>6. outcome = "double_spend" =>
        /\ trace = IF spender \in Indexed THEN spender ELSE NoDevice
        /\ existing \in posted \ {r}
        /\ existing.device = spender
        /\ existing.ticket = r.ticket
  <2> HIDE DEF outcome
  <2> SUFFICES ASSUME outcome = "double_spend"
               PROVE  /\ trace = IF spender \in Indexed THEN spender ELSE NoDevice
                      /\ existing \in posted \ {r}
                      /\ existing.device = spender
                      /\ existing.ticket = r.ticket
    OBVIOUS
  <2>1. existing \in posted \ {r} /\ existing.ticket = r.ticket
    BY <1>2, <1>5 DEF IInv, Answered
  <2>2. /\ existing.c = Response(spender, r.ticket, existing.gamma)
        /\ existing.device = spender
        /\ r.c = Response(spender, r.ticket, r.gamma)
    BY <2>1 DEF IInv, Honest, Answers
  <2>3. existing.gamma \in Scalar
    BY <2>1 DEF IInv, TypeOK, Request
  <2>4. d[r.ticket] \in Scalar /\ k[spender] \in Scalar
    BY <1>2, <1>3, SpendAssumption DEF IInv, TypeOK
  <2>5. recover_trace_key(existing, r) = k[spender]
    <3> HIDE DEF existing, spender
    <3>1. QED
      BY <1>2, <1>5, <2>2, <2>3, <2>4, Recovery DEF Response
  <2>6. QED
    BY <1>3, <2>1, <2>2, <2>5, Lookup
<1>7. trace \in Device \cup {NoDevice} /\ (outcome # "double_spend" => trace = NoDevice)
  <2> HIDE DEF outcome
  <2>1. QED
    BY <1>3, <1>6
<1> HIDE DEF outcome, trace
<1>8. v \in Verdict /\ v.request = r /\ v.outcome = outcome /\ v.trace = trace
  BY <1>2, <1>5, <1>7 DEF Verdict
<1> HIDE DEF v
<1>9. TypeOK'
  BY <1>1, <1>2, <1>8 DEF IInv, TypeOK
<1>10. Saved' = Saved
  BY <1>1 DEF Saved
<1>11. Honest' /\ LogComplete' /\ OncePerOpid' /\ HoldsOwn'
  BY <1>1, <1>10 DEF IInv, Honest, Answers, Response, LogComplete, OncePerOpid, HoldsOwn
<1>12. Answered'
  <2>1. \A t \in Ticket :
          nullifier'[t] # NoRequest => nullifier'[t] \in posted' /\ nullifier'[t].ticket = t
    BY <1>1, <1>2 DEF IInv, Answered, TypeOK
  <2>2. \A w \in verdicts' : w.request \in posted'
    BY <1>1, <1>8 DEF IInv, Answered
  <2>3. ASSUME NEW w \in verdicts', w.outcome \in {"new", "exact_replay"}
        PROVE  nullifier'[w.request.ticket] = w.request
    <3>1. CASE w = v
      BY <1>1, <1>2, <1>5, <1>8, <2>3, <3>1 DEF IInv, TypeOK
    <3>2. CASE w # v
      <4>1. w \in verdicts
        BY <1>1, <3>2
      <4>2. nullifier[w.request.ticket] = w.request /\ w.request # NoRequest
        BY <2>3, <4>1, NoRequestAssumption DEF IInv, Answered, TypeOK
      <4>3. outcome = "new" => w.request.ticket # r.ticket
        BY <1>5, <4>2
      <4>4. QED
        BY <1>1, <4>2, <4>3 DEF IInv, TypeOK
    <3>3. QED
      BY <3>1, <3>2
  <2>4. QED
    BY <2>1, <2>2, <2>3 DEF Answered
<1>13. TraceNamesSpender'
  <2> SUFFICES ASSUME NEW w \in verdicts'
               PROVE  /\ w.trace # NoDevice =>
                           /\ w.trace = owner[w.request.ticket]
                           /\ \E s \in posted \ {w.request} :
                                /\ s.device = owner[w.request.ticket]
                                /\ s.ticket = w.request.ticket
                      /\ w.outcome = "double_spend" /\ owner[w.request.ticket] \in Indexed
                           => w.trace = owner[w.request.ticket]
    BY <1>1 DEF TraceNamesSpender
  <2>1. CASE w = v
    BY <1>6, <1>7, <1>8, <2>1
  <2>2. CASE w # v
    BY <1>1, <2>2 DEF IInv, TraceNamesSpender
  <2>3. QED
    BY <2>1, <2>2
<1>14. QED
  BY <1>9, <1>11, <1>12, <1>13 DEF IInv

LEMMA ProceedStep ==
    ASSUME IInv, NEW tx \in Transaction, Proceed(tx)
    PROVE  IInv'
<1>1. UNCHANGED <<owner, d, ticket, log, running, opened, posted, nullifier, verdicts>>
  BY DEF Proceed
<1>2. TypeOK'
  BY <1>1 DEF Proceed, IInv, TypeOK
<1>3. QED
  BY <1>1, <1>2 DEF IInv, Honest, Answers, Response, HoldsOwn, LogComplete, OncePerOpid,
                    Answered, TraceNamesSpender, Saved

LEMMA Inductive == Spec => []IInv
<1>1. IInv /\ [Next]_vars => IInv'
  <2> SUFFICES ASSUME IInv, [Next]_vars PROVE IInv'
    OBVIOUS
  <2>1. ASSUME NEW e \in Device, NEW t \in Ticket, NEW d_value \in Scalar,
               NEW fresh \in BOOLEAN, IssueTicket(e, t, d_value, fresh)
        PROVE  IInv'
    BY <2>1, IssueStep
  <2>2. ASSUME NEW e \in Device, NEW tx \in Transaction, NEW opid \in Opid,
               NEW gamma \in Scalar, Respond(e, tx, opid, gamma)
        PROVE  IInv'
    BY <2>2, RespondStep
  <2>3. ASSUME NEW e \in Device, Post(e) PROVE IInv'
    BY <2>3, PostStep
  <2>4. ASSUME NEW e \in Device, Crash(e) PROVE IInv'
    BY <2>4, CrashStep
  <2>5. ASSUME NEW r \in posted, Authenticate(r) PROVE IInv'
    BY <2>5, AuthenticateStep
  <2>6. ASSUME NEW tx \in Transaction, Proceed(tx) PROVE IInv'
    BY <2>6, ProceedStep
  <2>7. CASE UNCHANGED vars
    BY <2>7 DEF vars, IInv, TypeOK, Honest, Answers, Response, HoldsOwn, LogComplete,
                OncePerOpid, Answered, TraceNamesSpender, Saved
  <2>8. QED
    BY <2>1, <2>2, <2>3, <2>4, <2>5, <2>6, <2>7 DEF Next
<1>2. QED
  BY InitIInv, <1>1, PTL DEF Spec

-----------------------------------------------------------------------------
(* Every request and verdict is of its type: an answer is a scalar (ticket.py). *)
THEOREM SpendTypeCorrect == Spec => []TypeOK
<1>1. IInv => TypeOK
  BY DEF IInv
<1>2. QED
  BY Inductive, <1>1, PTL

(* A traced double spend names the device that answered twice, in any prime field and
   in any order of arrival (double_spend.py:27-43, 70-80). *)
THEOREM SpenderTraced == Spec => []TraceNamesSpender
<1>1. IInv => TraceNamesSpender
  BY DEF IInv
<1>2. QED
  BY Inductive, <1>1, PTL

(* A ticket is taken with one request, however many are made with it
   (service.py:328-403). *)
THEOREM TakenOnce == Spec => []TakenWithOneRequest
<1>1. IInv => TakenWithOneRequest
  BY DEF IInv, Answered, TakenWithOneRequest
<1>2. QED
  BY Inductive, <1>1, PTL

(* A ticket answers one challenge under one opid, whatever the issues and the crashes in
   between (local_ticket_log.py:72). *)
THEOREM OpidAnsweredOnce == Spec => []OneResponsePerOpid
<1>1. IInv => OneResponsePerOpid
  BY DEF IInv, OncePerOpid, OneResponsePerOpid
<1>2. QED
  BY Inductive, <1>1, PTL
=============================================================================
