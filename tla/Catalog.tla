------------------------------- MODULE Catalog -------------------------------
(***************************************************************************)
(* What the administration of problems and test cases promises             *)
(* (db/problem_admin.h, db/testcase_admin.h): every request takes effect   *)
(* at once, entirely, between its arrival and its answer, or it leaves no  *)
(* trace; and the answer says which.                                       *)
(*                                                                         *)
(* A problem is a tag (for all of its fields that are only stored), its    *)
(* visibility, the list of public samples and the hidden test cases.       *)
(***************************************************************************)
EXTENDS Integers, Sequences, FiniteSets

CONSTANTS
    Clients,  \* administrators' requests
    Ops,      \* what they may ask for
    MaxOrd,   \* kMaxTestcaseOrd
    None      \* field that a request does not give

VARIABLES
    catalog,    \* the problems, by id
    usedIds,    \* ids that problems have had
    usedCases,  \* ids that test cases have had
    kept,       \* ids of problems with submissions
    call        \* per request: what it asks for and its answer

catalogVars == <<call, kept, usedIds, usedCases, catalog>>

Idle == [kind |-> "none", problem |-> 0, case |-> 0, tag |-> None,
         visible |-> None, samples |-> None, text |-> None, ord |-> None]

CatalogInit ==
    /\ call = [c \in Clients |-> [op |-> Idle, answer |-> None]]
    /\ usedIds = DOMAIN catalog
    /\ \A p \in DOMAIN catalog : DOMAIN catalog[p].hidden \subseteq usedCases
    /\ kept \subseteq DOMAIN catalog

\* A field keeps its value when the request does not give it.
Given(field, old) == IF field = None THEN old ELSE field

\* The positions taken by the cases of a problem; sample i is at i - 1.
Ords(problem) ==
    {i - 1 : i \in DOMAIN problem.samples} \cup {problem.hidden[k].ord : k \in DOMAIN problem.hidden}

\* A client asks for something.
Request(c) ==
    /\ call[c] = [op |-> Idle, answer |-> None]
    /\ \E op \in Ops : call' = [call EXCEPT ![c].op = op]
    /\ UNCHANGED <<catalog, usedIds, usedCases, kept>>

Answered(c, answer) ==
    /\ call[c].op # Idle
    /\ call' = [call EXCEPT ![c] = [op |-> Idle, answer |-> answer]]

-----------------------------------------------------------------------------
(* The effects.  Only problem p is touched.                                *)

Become(p, problem) == catalog' = [catalog EXCEPT ![p] = problem] /\ UNCHANGED <<usedIds, kept>>

\* Only the hidden cases change.
Hides(p, cases) == Become(p, [catalog[p] EXCEPT !.hidden = cases])

CreateProblem(c) ==
    LET op == call[c].op IN
    /\ op.kind = "create"
    /\ \E id \in usedIds' \ usedIds :
        /\ usedIds' = usedIds \cup {id}
        /\ catalog' = [q \in DOMAIN catalog \cup {id} |->
                         IF q # id THEN catalog[q]
                         ELSE [tag |-> op.tag, visible |-> op.visible, samples |-> op.samples, hidden |-> <<>>]]
    /\ usedCases \subseteq usedCases'
    /\ UNCHANGED kept

UpdateProblem(c) ==
    LET op == call[c].op
        p == op.problem IN
    /\ op.kind = "update"
    /\ p \in DOMAIN catalog
    /\ Become(p, [tag |-> Given(op.tag, catalog[p].tag),
                  visible |-> Given(op.visible, catalog[p].visible),
                  samples |-> Given(op.samples, catalog[p].samples),
                  hidden |-> catalog[p].hidden])
    /\ usedCases \subseteq usedCases'

DeleteProblem(c) ==
    LET op == call[c].op IN
    /\ op.kind = "delete"
    /\ op.problem \in DOMAIN catalog \ kept
    /\ catalog' = [q \in DOMAIN catalog \ {op.problem} |-> catalog[q]]
    /\ UNCHANGED <<usedIds, usedCases, kept>>

\* A new case comes last unless the request says where.
CreateCase(c) ==
    LET op == call[c].op
        p == op.problem
        hidden == catalog[p].hidden IN
    /\ op.kind = "addCase"
    /\ p \in DOMAIN catalog
    /\ \E id \in usedCases' \ usedCases, ord \in 0..MaxOrd :
        /\ usedCases' = usedCases \cup {id}
        /\ IF op.ord = None THEN \A o \in Ords(catalog[p]) : o < ord ELSE ord = op.ord
        /\ Hides(p, [k \in DOMAIN hidden \cup {id} |->
                        IF k = id THEN [ord |-> ord, text |-> op.text] ELSE hidden[k]])

UpdateCase(c) ==
    LET op == call[c].op
        p == op.problem
        hidden == catalog[p].hidden IN
    /\ op.kind = "changeCase"
    /\ p \in DOMAIN catalog
    /\ op.case \in DOMAIN hidden
    /\ Hides(p, [hidden EXCEPT ![op.case] = [ord |-> Given(op.ord, @.ord), text |-> Given(op.text, @.text)]])
    /\ UNCHANGED usedCases

DeleteCase(c) ==
    LET op == call[c].op
        p == op.problem
        hidden == catalog[p].hidden IN
    /\ op.kind = "removeCase"
    /\ p \in DOMAIN catalog
    /\ op.case \in DOMAIN hidden
    /\ Hides(p, [k \in DOMAIN hidden \ {op.case} |-> hidden[k]])
    /\ UNCHANGED usedCases

Perform(c) ==
    /\ Answered(c, "Done")
    /\ \/ CreateProblem(c) \/ UpdateProblem(c) \/ DeleteProblem(c)
       \/ CreateCase(c) \/ UpdateCase(c) \/ DeleteCase(c)

-----------------------------------------------------------------------------
(* The refusals, each of which is due, and the failures.                   *)

Refused(c) ==
    LET op == call[c].op
        p == op.problem IN
    /\ \/ /\ Answered(c, "NotFound")
          /\ op.kind \in {"update", "delete", "addCase"}
          /\ p \notin DOMAIN catalog
       \/ /\ Answered(c, "NotFound")
          /\ op.kind \in {"changeCase", "removeCase"}
          /\ p \in DOMAIN catalog => op.case \notin DOMAIN catalog[p].hidden
       \/ /\ Answered(c, "HasSubmissions")
          /\ op.kind = "delete"
          /\ p \in kept
       \/ /\ Answered(c, "OrdExhausted")
          /\ op.kind = "addCase" /\ op.ord = None
          /\ p \in DOMAIN catalog
          /\ MaxOrd \in Ords(catalog[p])
       \/ Answered(c, "Failed")
    /\ UNCHANGED <<catalog, usedIds, usedCases, kept>>

\* A submission is saved; its problem exists.
Submission ==
    /\ UNCHANGED <<call, catalog, usedIds, usedCases>>
    /\ \E p \in DOMAIN catalog : kept' = kept \cup {p}

CatalogNext ==
    \/ \E c \in Clients : Request(c) \/ Perform(c) \/ Refused(c)
    \/ Submission

CatalogSpec == CatalogInit /\ [][CatalogNext]_catalogVars

=============================================================================
