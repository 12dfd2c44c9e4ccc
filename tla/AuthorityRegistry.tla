-------------------------- MODULE AuthorityRegistry --------------------------
(***************************************************************************)
(* The versioned registry of the MCP server (palo-mcp-server/core.js):     *)
(* policies, agent profiles, executors, verifiers, Data Fitness Policies   *)
(* and AI system records, one entry of each kind.  Each registration is a  *)
(* transaction; servers that share the database file interleave between    *)
(* transactions.  Decisions are made under the current profile, and what   *)
(* is signed for them later reads the profile again by its version.        *)
(***************************************************************************)
EXTENDS Integers

CONSTANTS
  Replaced,     \* kinds whose rows are replaced: policy, profile, executor, verifier
  Kept,         \* kinds whose rows are kept: fitness, system
  RegVersion,   \* versions, in the order of isNewer
  Text,         \* contents without their version
  Bundled       \* the reference policies that releases of the server bundle

ASSUME RegistryAssumption ==
  /\ Replaced = {"policy", "profile"} \cup (Replaced \cap {"executor", "verifier"})
  /\ Kept \subseteq {"fitness", "system"}
  /\ RegVersion \subseteq Nat \ {0}
  /\ Bundled \subseteq [version : RegVersion, text : Text]

VARIABLES
  arRow,      \* the table of each kind, by version
  arCurrent,  \* its version with is_current = 1, 0 for none
  arReading,  \* the profile read by a verification that awaits its policy
  arDecided   \* the profiles that stored decisions were made under

arVars == <<arRow, arCurrent, arReading, arDecided>>

Kind == Replaced \cup Kept
NoText == "no-text"
NoProfile == <<0, NoText>>
Profiles == RegVersion \X Text

RegistryTypeOK ==
  /\ arRow \in [Kind -> [RegVersion -> Text \cup {NoText}]]
  /\ arCurrent \in [Kind -> RegVersion \cup {0}]
  /\ arReading \in Profiles \cup {NoProfile}
  /\ arDecided \subseteq Profiles

RegistryInit ==
  /\ arRow = [k \in Kind |-> [v \in RegVersion |-> NoText]]
  /\ arCurrent = [k \in Kind |-> 0]
  /\ arReading = NoProfile
  /\ arDecided = {}
-----------------------------------------------------------------------------
(* Registrations *)

Write(k, v, text) ==
  /\ arRow' = [arRow EXCEPT ![k][v] = text]
  /\ arCurrent' = [arCurrent EXCEPT ![k] = v]
  /\ UNCHANGED <<arReading, arDecided>>

Newer(k, v) == arCurrent[k] = 0 \/ v > arCurrent[k]

\* A mutation: no digest covers the version.
SameText(k, v, text) == arCurrent[k] # 0 /\ arRow[k][arCurrent[k]] = text

\* The digest of a policy is that of its bundle alone.
SameDigest(k, v, text) ==
  /\ arCurrent[k] # 0
  /\ arRow[k][arCurrent[k]] = text
  /\ k = "policy" \/ v = arCurrent[k]

\* registerPolicy, registerAgent, registerExecutor, registerVerifier: INSERT OR
\* REPLACE of the row.
Register(k, v, text) ==
  /\ Newer(k, v) \/ SameDigest(k, v, text)
  /\ Write(k, v, text)

\* registerDataFitnessPolicy, registerAiSystem: a version that is stored is
\* returned, or refused if it differs, and nothing changes.
RegisterOnce(k, v, text) ==
  /\ arRow[k][v] = NoText /\ Newer(k, v)
  /\ Write(k, v, text)

\* bootstrapPolicy, when a server starts.
BootstrapPolicy(b) ==
  /\ Newer("policy", b.version)
  /\ arCurrent["policy"] # 0 => arRow["policy"][arCurrent["policy"]] # b.text
  /\ Write("policy", b.version, b.text)
-----------------------------------------------------------------------------
(* verifyAction reads the profile, awaits the policy and stores the decision *)

GetProfile ==
  /\ arReading = NoProfile /\ arCurrent["profile"] # 0
  /\ arReading' = <<arCurrent["profile"], arRow["profile"][arCurrent["profile"]]>>
  /\ UNCHANGED <<arRow, arCurrent, arDecided>>

StoreDecision ==
  /\ arReading # NoProfile
  /\ arDecided' = arDecided \cup {arReading}
  /\ arReading' = NoProfile
  /\ UNCHANGED <<arRow, arCurrent>>

RegistryNext ==
  \/ \E v \in RegVersion, text \in Text :
       \/ \E k \in Replaced : Register(k, v, text)
       \/ \E k \in Kept : RegisterOnce(k, v, text)
  \/ \E b \in Bundled : BootstrapPolicy(b)
  \/ GetProfile
  \/ StoreDecision

RegistrySpec == RegistryInit /\ [][RegistryNext]_arVars
-----------------------------------------------------------------------------
(* Properties *)

\* The profile a decision was made under stays on record under its version:
\* receipts and evidence signed later (getSigningMaterial, core.js:426) take the
\* keys of that profile, whatever was registered in the meantime.  And of every
\* kind but policies the newest version is current ("A profile update with
\* different content must use a strictly newer semantic version",
\* palo-ai-governance-integration-guide.md:206).
DecidedProfilesKept ==
  /\ \A p \in arDecided \cup ({arReading} \ {NoProfile}) : arRow["profile"][p[1]] = p[2]
  /\ \A k \in Kind \ {"policy"}, v \in RegVersion :
       arRow[k][v] # NoText => v <= arCurrent[k]
=============================================================================
