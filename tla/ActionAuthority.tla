--------------------------- MODULE ActionAuthority ---------------------------
(***************************************************************************)
(* What authority the MCP server finds in an Action Claim: the delegation  *)
(* chain of its authority context (palo-mcp-server/assurance-foundation.js *)
(* validateAuthorityContext) and the reference policy on its registered    *)
(* profile (examples/policy-as-code/agent-delegation.rego).  Both are pure *)
(* functions of the input: one step decides one claim.  Issuers, audience  *)
(* and tenant, which are compared with what is configured, are one flag,   *)
(* and so are the allowlists of tools, operations, hosts and roles.        *)
(***************************************************************************)
EXTENDS Integers, Sequences

CONSTANTS
  Party,          \* principals: the human, the acting agent, agents between
  Human,          \* the human principal
  Scope,          \* read and write scopes
  Under,          \* Under[g]: the scopes a profile's scope g covers, as g or by its "/*"
  Chains,         \* delegation chains a context may carry
  MaxDelegationDepth,  \* of the runtime
  AuthorityClaim, \* claims: agent, requested scopes, chain, depth, trusted context
  AuthorityProfile, AuthorityApproval

\* A link is live if it covers the claim's window, and now.
Link == [from : Party, to : Party, scopes : SUBSET Scope, live : BOOLEAN]

ASSUME AuthorityAssumption ==
  /\ Human \in Party
  /\ Under \in [Scope -> SUBSET Scope] /\ \A g \in Scope : g \in Under[g]
  /\ Chains \subseteq Seq(Link)
  /\ MaxDelegationDepth \in Nat
  /\ \A c \in AuthorityClaim : /\ c.agent \in Party /\ c.requested \subseteq Scope
                               /\ c.chain \in Chains
                               /\ c.depth \in Nat /\ c.trusted \in BOOLEAN
  /\ \A p \in AuthorityProfile : /\ p.agent \in Party /\ p.scopes \subseteq Scope
                                 /\ p.maxDepth \in Nat
                                 /\ {p.active, p.listed, p.validation} \subseteq BOOLEAN
  /\ AuthorityApproval \subseteq {"none", "approved", "unbound", "denied"}

VARIABLES
  auClaim, auProfile, auApproval,
  auDecision

auVars == <<auClaim, auProfile, auApproval, auDecision>>

AuthorityTypeOK ==
  auDecision \in {"undecided", "denied", "pending_approval", "allowed"}

AuthorityInit ==
  /\ auClaim \in AuthorityClaim
  /\ auProfile \in AuthorityProfile
  /\ auApproval \in AuthorityApproval
  /\ auDecision = "undecided"
-----------------------------------------------------------------------------
(* validateAuthorityContext *)

Contiguous(chain, i) == chain[i].from = IF i = 1 THEN Human ELSE chain[i - 1].to

\* A mutation: the two links of the comparison are swapped.
SwappedCover(chain, i) == i > 1 => chain[i - 1].scopes \subseteq chain[i].scopes

Narrowing(chain, i) == i > 1 => chain[i].scopes \subseteq chain[i - 1].scopes

Terminal(c) ==
  IF c.chain = <<>> THEN Human = c.agent
  ELSE /\ c.chain[Len(c.chain)].to = c.agent
       /\ c.requested \subseteq c.chain[Len(c.chain)].scopes

ValidContext(c) ==
  /\ c.trusted
  /\ Len(c.chain) = c.depth /\ Len(c.chain) <= MaxDelegationDepth
  /\ \A i \in 1..Len(c.chain) :
       Contiguous(c.chain, i) /\ c.chain[i].live /\ Narrowing(c.chain, i)
  /\ Terminal(c)
-----------------------------------------------------------------------------
(* action_decision *)

ScopeAllowed(requested, scopes) == \E g \in scopes : requested \in Under[g]

Violated(c, p, approval) ==
  \/ c.agent # p.agent \/ ~p.active \/ ~p.listed
  \/ \E s \in c.requested : ~ScopeAllowed(s, p.scopes)
  \/ c.depth > p.maxDepth
  \/ p.validation /\ approval = "denied"

RequiresApproval(p, approval) == p.validation /\ approval # "approved"

ActionDecision(c, p, approval) ==
  IF Violated(c, p, approval) THEN "denied"
  ELSE IF RequiresApproval(p, approval) THEN "pending_approval" ELSE "allowed"

VerifyAuthority ==
  /\ auDecision = "undecided"
  /\ auDecision' = IF ValidContext(auClaim) THEN ActionDecision(auClaim, auProfile, auApproval)
                   ELSE "denied"
  /\ UNCHANGED <<auClaim, auProfile, auApproval>>

AuthoritySpec == AuthorityInit /\ [][VerifyAuthority]_auVars
-----------------------------------------------------------------------------
\* The scopes that reach a party from the human through the first n links.
Reaching[n \in Nat] ==
  IF n = 0 THEN [at |-> Human, scopes |-> Scope]
  ELSE [at |-> auClaim.chain[n].to,
        scopes |-> IF auClaim.chain[n].from = Reaching[n - 1].at
                   THEN Reaching[n - 1].scopes \cap auClaim.chain[n].scopes ELSE {}]

\* What an allowed claim asks for reached its agent from the human along the
\* whole chain, although each link is only compared with its neighbour and the
\* request with the last, and its profile covers it too ("contiguous delegation
\* chain ... non-widening scopes", palo-mcp-server/README.md:70).
AllowedReachesAgent ==
  auDecision = "allowed" =>
    LET reached == Reaching[Len(auClaim.chain)] IN
    /\ reached.at = auClaim.agent
    /\ auClaim.requested \subseteq reached.scopes
    /\ \A i \in 1..Len(auClaim.chain) : auClaim.chain[i].live
    /\ \A s \in auClaim.requested : \E g \in auProfile.scopes : s \in Under[g]
    /\ auProfile.validation => auApproval = "approved"
=============================================================================
