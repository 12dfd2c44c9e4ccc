----------------------------- MODULE MCLedgers -----------------------------
(***************************************************************************)
(* What decides on an action and its costs: the FinOps ledger, billing    *)
(* and, of the MCP server, data assurance, the versioned registry, the    *)
(* curated knowledge base and the authority of a claim.  They share no     *)
(* state here: each behaviour runs one of Parts, the others stay as they   *)
(* start.                                                                  *)
(***************************************************************************)
EXTENDS FinOpsLedger, FinOpsBilling, DataAssurance, AuthorityRegistry, KnowledgeCuration,
        ActionAuthority

CONSTANT Parts

ASSUME PartsAssumption ==
  Parts \subseteq {"finops", "billing", "data", "registry", "curation", "authority"}

VARIABLE part

\* "pay" and "other" use one requestId with different contents; "probe" is a
\* request of the loopback probe that an operator may have reserved for by hand.
\* Two reservations fit the budget, three do not.
MCRequest == {"pay", "other", "probe"}
MCIdOf == [r \in MCRequest |-> IF r = "probe" THEN "q2" ELSE "q1"]
MCAttemptOf == [r \in MCRequest |-> IF r = "probe" THEN "a2" ELSE "pilot-q1"]
MCWorkloadOf == [a \in {"pilot-q1", "a2"} |-> IF a = "a2" THEN "w2" ELSE "w1"]
MCAmountOf == [r \in MCRequest |-> IF r = "other" THEN 1 ELSE 2]
MCWorkloadBudget == [w \in {"w1", "w2"} |-> IF w = "w1" THEN 3 ELSE 2]

\* Usage that is estimated at first, or final; an invoice that corrects it; a
\* snapshot that leaves it out and lists a credit; and a part of an export.
SourceRecord(id, revision, supersedes, amount, final) ==
  [source |-> id, revision |-> revision, supersedes |-> supersedes, amount |-> amount,
   final |-> final, usage |-> {1}]
Export(mode, rows) ==
  [ours |-> TRUE, complete |-> TRUE, mode |-> mode, distinct |-> FALSE,
   coverage |-> {1, 2}, rows |-> rows]
Usage(final) == Export("delta", {SourceRecord("s1", 1, 0, 2, final)})
MCBatch ==
  {Usage(FALSE), Usage(TRUE), [Usage(FALSE) EXCEPT !.complete = FALSE],
   Export("snapshot", {SourceRecord("s1", 2, 1, 1, TRUE)}),
   Export("snapshot", {SourceRecord("s2", 1, 0, -1, TRUE)})}
MCReservedOn == [a \in {"a1"} |-> 1]
MCLinkAmount == {1, 2, -1}

\* Evidence with and without an assertion, of both types, that overlaps in time;
\* the second policy needs both types, fresh, and denies without them.
Evidence(type, claim, observed, until) ==
  [subject |-> "s", type |-> type, claim |-> claim, observedAt |-> observed,
   validUntil |-> until]
MCContent == {Evidence("quality", "met", 0, 3), Evidence("quality", "unmet", 1, 2),
              Evidence("incident", "silent", 0, 2), Evidence("incident", "met", 1, 3)}
MCPolicies ==
  <<[required |-> {"quality"}, maxAge |-> NoLimit, onMissing |-> "review_required"],
    [required |-> {"quality", "incident"}, maxAge |-> 1, onMissing |-> "denied"]>>

MCBundled == {[version |-> 1, text |-> "x"], [version |-> 2, text |-> "y"]}

\* Chains of up to two links, in and out of order, over a scope and one that a
\* profile's wildcard covers.
MCUnder == [g \in {"d/*", "d/x"} |-> IF g = "d/*" THEN {"d/*", "d/x"} ELSE {"d/x"}]
MCLink ==
  {[from |-> hop[1], to |-> hop[2], scopes |-> s, live |-> l] :
     hop \in {<<"human", "agent">>, <<"human", "sub">>, <<"sub", "agent">>},
     s \in SUBSET {"d/*", "d/x"}, l \in BOOLEAN}
MCChains == {<<>>} \cup {<<l>> : l \in MCLink} \cup (MCLink \X MCLink)
MCClaim ==
  {[agent |-> "agent", requested |-> s, chain |-> c, depth |-> d, trusted |-> TRUE] :
     s \in {{"d/x"}, {"d/*", "d/x"}}, c \in MCChains, d \in {1, 2}}
  \cup {[agent |-> a, requested |-> {"d/x"}, chain |-> <<>>, depth |-> 0, trusted |-> t] :
          a \in {"human", "agent"}, t \in BOOLEAN}
MCProfile ==
  {[agent |-> a, scopes |-> s, maxDepth |-> m, active |-> TRUE, listed |-> TRUE,
    validation |-> v] : a \in {"human", "agent"}, s \in {{"d/*"}, {"d/x"}}, m \in {1, 2},
                        v \in BOOLEAN}
  \cup {[agent |-> "agent", scopes |-> {"d/*"}, maxDepth |-> 2, active |-> a, listed |-> ~a,
         validation |-> FALSE] : a \in BOOLEAN}

AuthorityIdle ==
  /\ auClaim = CHOOSE c \in AuthorityClaim : TRUE
  /\ auProfile = CHOOSE p \in AuthorityProfile : TRUE
  /\ auApproval = "none"
  /\ auDecision = "undecided"

Init ==
  /\ part \in Parts
  /\ FinOpsInit /\ BillingInit /\ DataInit /\ RegistryInit /\ CurationInit
  /\ IF part = "authority" THEN AuthorityInit ELSE AuthorityIdle

Next ==
  /\ UNCHANGED part
  /\ \/ part = "finops" /\ FinOpsNext /\ UNCHANGED <<fbVars, daVars, arVars, kbVars, auVars>>
     \/ part = "billing" /\ BillingNext /\ UNCHANGED <<vars, daVars, arVars, kbVars, auVars>>
     \/ part = "data" /\ DataNext /\ UNCHANGED <<vars, fbVars, arVars, kbVars, auVars>>
     \/ part = "registry" /\ RegistryNext /\ UNCHANGED <<vars, fbVars, daVars, kbVars, auVars>>
     \/ part = "curation" /\ CurationNext /\ UNCHANGED <<vars, fbVars, daVars, arVars, auVars>>
     \/ part = "authority" /\ VerifyAuthority
        /\ UNCHANGED <<vars, fbVars, daVars, arVars, kbVars>>

Spec == Init /\ [][Next]_<<part, vars, fbVars, daVars, arVars, kbVars, auVars>>

\* The parts a behaviour does not run stay as they start.
LedgerTypesOK ==
  CASE part = "finops" -> FinOpsTypeOK
    [] part = "billing" -> BillingTypeOK
    [] part = "data" -> DataTypeOK
    [] part = "registry" -> RegistryTypeOK
    [] part = "curation" -> CurationTypeOK
    [] part = "authority" -> AuthorityTypeOK
=============================================================================
