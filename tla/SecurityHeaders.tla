--------------------------- MODULE SecurityHeaders ---------------------------
(***************************************************************************)
(* The security header policies of the values API:                         *)
(* SecurityHeadersDefinitionsAPI.cs and SecurityHeadersDefinitionsSwagger  *)
(* .cs, two classes with the same code, each with a static policy of its   *)
(* own.  The first request builds the policy and later ones reuse it; the  *)
(* field is assigned before the policy is complete, and is read again at   *)
(* each statement, while other requests run on other pool threads; nor is  *)
(* the Dictionary that a policy is safe for two that add to it at a time.  *)
(*                                                                         *)
(* A policy is named by the request that created it.  Names that the other *)
(* module of this API, ScopeValues, has too are prefixed: one module can   *)
(* then extend both and hold the proofs about the two (ValuesApiProofs).   *)
(***************************************************************************)
EXTENDS Naturals

CONSTANTS Requests,  \* bound: requests of the values API
          None,
          IsDev,     \* the environment is Development
          Capacity   \* bound: headers that can be added to a policy; two for
                     \* every request are never too few

ASSUME NoneAssumption     == None \notin Requests
ASSUME IsDevAssumption    == IsDev \in BOOLEAN
ASSUME CapacityAssumption == Capacity \in Nat

(* A policy is a Dictionary of headers.  The first chain of calls fills it *)
(* before anybody else has it ("base"); the content security policy and    *)
(* strict transport security take a slot each after these.                 *)
Added == {"csp"} \cup (IF IsDev THEN {} ELSE {"hsts"})
Full  == {"base"} \cup Added
Slots == 1 .. Capacity

VARIABLES policy,   \* the static field: the request that created its value, or None
          slots,    \* policy -> slot -> the header in it, or "blank"
          count,    \* policy -> the slots in use
          stage,    \* request -> where it is
          add,      \* request -> the step of its present call that adds a header,
                    \* the policy it adds to and the slot it has taken
          applied,  \* request -> the policy it applies
          changed,  \* the requests whose policy has changed since they took it
          sent,     \* request -> the headers of its response
          raced     \* history: the policies to which two calls added at a time

policyVars  == <<policy, slots, count>>
headersVars == <<policyVars, stage, add, applied, changed, sent, raced>>

Stages == {"new", "create", "csp", "hsts", "return", "apply", "sent", "failed"}

NoAdd == [step |-> "read", policy |-> None, slot |-> 0]

HeadersInit ==
  /\ policy  = None
  /\ slots   = [p \in Requests |-> [i \in Slots |-> "blank"]]
  /\ count   = [p \in Requests |-> 0]
  /\ stage   = [r \in Requests |-> "new"]
  /\ add     = [r \in Requests |-> NoAdd]
  /\ applied = [r \in Requests |-> None]
  /\ changed = {}
  /\ sent    = [r \in Requests |-> {}]
  /\ raced   = {}

At(r, s)   == stage[r] = s
Goto(r, s) == stage' = [stage EXCEPT ![r] = s]

InSlot(p, i) == slots[p][i]
HeadersOf(p) == {"base"} \cup ({InSlot(p, i) : i \in 1 .. count[p]} \ {"blank"})

-----------------------------------------------------------------------------
(* GetHeaderPolicyCollection *)

(* if (policy != null) return policy. *)
Enter(r) ==
  /\ At(r, "new")
  /\ Goto(r, IF policy = None THEN "create" ELSE "return")
  /\ UNCHANGED <<policyVars, add, applied, changed, sent, raced>>

(* Mutant: the new policy is built, but not kept in the field. *)
CreateUnshared(r) ==
  /\ At(r, "create")
  /\ Goto(r, "csp")
  /\ UNCHANGED <<policyVars, add, applied, changed, sent, raced>>

(* Assign a new policy, with the headers of the chain, to the field. *)
Create(r) ==
  /\ At(r, "create")
  /\ policy' = r
  /\ Goto(r, "csp")
  /\ UNCHANGED <<slots, count, add, applied, changed, sent, raced>>

(* The two statements that add a header, and what follows on them. *)
Adding(r)    == stage[r] \in {"csp", "hsts"}
AtStep(r, s) == Adding(r) /\ add[r].step = s
Advance(r)   == /\ Goto(r, IF At(r, "csp") /\ ~IsDev THEN "hsts" ELSE "return")
                /\ add' = [add EXCEPT ![r] = NoAdd]

(* Each of them reads the field again. *)
ReadField(r) ==
  /\ AtStep(r, "read")
  /\ add' = [add EXCEPT ![r] = [step |-> "find", policy |-> policy, slot |-> 0]]
  /\ UNCHANGED <<policyVars, stage, applied, changed, sent, raced>>

(* policies[header] = ..., of the Dictionary, first looks for the header:   *)
(* one that is there gets a new value in its slot.  In a policy with racing *)
(* calls the links between the slots may lead past it, to one that is no    *)
(* longer counted, or in a ring, on which the Dictionary throws.            *)
FindsOther(r) ==   \* mutant: it adds nothing when another has begun a policy
  stage[r] \in HeadersOf(add[r].policy) \/ \E q \in Requests \ {r} : Adding(q)

Finds(r) == stage[r] \in HeadersOf(add[r].policy)

Find(r) ==
  /\ AtStep(r, "find")
  /\ \/ /\ Finds(r) \/ add[r].policy \in raced
        /\ Advance(r)
     \/ /\ ~Finds(r) \/ add[r].policy \in raced
        /\ add' = [add EXCEPT ![r].step = "take"]
        /\ UNCHANGED stage
     \/ /\ add[r].policy \in raced
        /\ Goto(r, "failed")
        /\ UNCHANGED add
  /\ UNCHANGED <<policyVars, applied, changed, sent, raced>>

(* The requests that have taken a slot of p and not filled it yet. *)
Inserting(p) == {r \in Requests : \E s \in {"count", "write"} : AtStep(r, s) /\ add[r].policy = p}

(* Take the slot after the last one in use. *)
TakeSlot(r) ==
  LET p == add[r].policy IN
    /\ AtStep(r, "take")
    /\ count[p] < Capacity
    /\ add'   = [add EXCEPT ![r] = [step |-> "count", policy |-> p, slot |-> count[p] + 1]]
    /\ raced' = IF Inserting(p) # {} THEN raced \cup {p} ELSE raced
    /\ UNCHANGED <<policyVars, stage, applied, changed, sent>>

(* Count the slot as in use. *)
CountSlot(r) ==
  /\ AtStep(r, "count")
  /\ count' = [count EXCEPT ![add[r].policy] = add[r].slot]
  /\ add'   = [add EXCEPT ![r].step = "write"]
  /\ UNCHANGED <<policy, slots, stage, applied, changed, sent, raced>>

(* Fill the slot, and let enumerations know of it. *)
WriteSlot(r) ==
  LET p == add[r].policy IN
    /\ AtStep(r, "write")
    /\ slots'   = [slots EXCEPT ![p][add[r].slot] = stage[r]]
    /\ changed' = changed \cup {q \in Requests : At(q, "apply") /\ applied[q] = p}
    /\ Advance(r)
    /\ UNCHANGED <<policy, count, applied, sent, raced>>

AddHeader(r) ==
  ReadField(r) \/ Find(r) \/ TakeSlot(r) \/ CountSlot(r) \/ WriteSlot(r)

(* Return the field, read once more. *)
Return(r) ==
  /\ At(r, "return")
  /\ applied' = [applied EXCEPT ![r] = policy]
  /\ Goto(r, "apply")
  /\ UNCHANGED <<policyVars, add, changed, sent, raced>>

(* The middleware goes through the slots in use.  This throws when a slot  *)
(* is filled meanwhile, or is not filled yet.                              *)
Apply(r) ==
  /\ At(r, "apply")
  /\ \/ Goto(r, "sent") /\ sent' = [sent EXCEPT ![r] = HeadersOf(applied[r])]
     \/ /\ r \in changed \/ Inserting(applied[r]) # {}
        /\ Goto(r, "failed")
        /\ UNCHANGED sent
  /\ UNCHANGED <<policyVars, add, applied, changed, raced>>

Request(r) ==
  Enter(r) \/ Create(r) \/ AddHeader(r) \/ Return(r) \/ Apply(r)

HeadersNext == \E r \in Requests : Request(r)

HeadersSpec == HeadersInit /\ [][HeadersNext]_headersVars

-----------------------------------------------------------------------------
(* Properties *)

(* The shape of every variable; there is a policy when one is needed. *)
HeadersTypeOK ==
  /\ policy  \in Requests \cup {None}
  /\ slots   \in [Requests -> [Slots -> Added \cup {"blank"}]]
  /\ count   \in [Requests -> 0 .. Capacity]
  /\ stage   \in [Requests -> Stages]
  /\ add     \in [Requests -> [step   : {"read", "find", "take", "count", "write"},
                               policy : Requests \cup {None},
                               slot   : 0 .. Capacity]]
  /\ applied \in [Requests -> Requests \cup {None}]
  /\ changed \subseteq Requests
  /\ sent    \in [Requests -> SUBSET Full]
  /\ raced   \subseteq Requests
  /\ \A r \in Requests : stage[r] \notin {"new", "create"} => policy # None

(* However the requests that found no policy overlap: as long as no two of *)
(* them insert into the policy in the field at a time, it lacks a header   *)
(* only until the request that created it has added that header.  Neither  *)
(* replacing the field's policy nor adding to a policy of another request  *)
(* does lasting harm by itself; inserting at the same time may lose a      *)
(* header for good.                                                        *)
PolicyIsCompleted ==
  policy # None /\ policy \notin raced =>
    /\ "csp"  \notin HeadersOf(policy) => At(policy, "csp")
    /\ "hsts" \notin HeadersOf(policy) => IsDev \/ Adding(policy)

(* "Strict security headers for production" (HostingExtensions.cs:38):     *)
(* every response carries all of them.                                     *)
ResponsesAreStrict == \A r \in Requests : At(r, "sent") => sent[r] = Full
=============================================================================
