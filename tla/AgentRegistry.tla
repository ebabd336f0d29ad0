----------------------------- MODULE AgentRegistry -----------------------------
(***************************************************************************)
(* The agent table of one name and the resolution of a bare name           *)
(* (server/server.go RegisterAgent, RegisterAgentVersion,                  *)
(* SetDefaultAgentVersion, resolveAgent, highestVersion).  A version is    *)
(* the sequence of its dot-separated components; a component is a number   *)
(* when Atoi reads it and text otherwise, and text is compared lexically.  *)
(***************************************************************************)
EXTENDS Integers, Sequences

CONSTANT Versions \* the versions that can be registered

\* A component is its rank in the lexical order of all components and, when
\* Atoi reads it, its number (-1 otherwise).  A missing one is the empty text.
Component == [lex : Nat, num : Nat \cup {-1}]
Missing == [lex |-> 0, num |-> -1]

ASSUME VersionsAssumption ==
  \A v \in Versions :
    /\ v \in Seq(Component) /\ v # <<>>
    /\ \A i \in DOMAIN v : v[i].num >= 0 => v[i].lex > 0  \* Atoi refuses ""

VARIABLES
  known,      \* the name has an entry
  versions,   \* its registered versions
  bare,       \* it has a bare handler
  defaultVer, \* the default version, or None
  scan,       \* highestVersion: versions it has still to look at
  best,       \* highestVersion: the best so far, or None
  resolved    \* what the last resolution of the bare name returned

regVars == <<known, versions, bare, defaultVer>>
agentVars == <<regVars, scan, best, resolved>>

None == <<>>
Idle == <<"idle">>
Failed(why) == <<"error", why>>
Bare == <<"bare">>
Version(v) == <<"version", v>>

-------------------------------------------------------------------------------
(* compareVersions.                                                        *)

At(v, i) == IF i <= Len(v) THEN v[i] ELSE Missing

Sign(a, b) == IF a > b THEN 1 ELSE IF a < b THEN -1 ELSE 0

\* Mutant of CompareComponent: the surprising lexical pick.
CompareLexically(a, b) == Sign(a.lex, b.lex)

CompareComponent(a, b) ==
  IF a.num >= 0 /\ b.num >= 0 THEN Sign(a.num, b.num) ELSE Sign(a.lex, b.lex)

\* The first component that differs decides.
CompareVersions(a, b) ==
  LET differ == {i \in 1..(IF Len(a) > Len(b) THEN Len(a) ELSE Len(b)) :
                   CompareComponent(At(a, i), At(b, i)) # 0}
  IN IF differ = {} THEN 0
     ELSE LET i == CHOOSE i \in differ : \A k \in differ : i <= k
          IN CompareComponent(At(a, i), At(b, i))

-------------------------------------------------------------------------------
AgentInit ==
  /\ known = FALSE /\ versions = {} /\ bare = FALSE /\ defaultVer = None
  /\ scan = {} /\ best = None /\ resolved = Idle

\* Registration takes the lock that a resolution holds for reading.
Registering ==
  /\ scan = {} /\ resolved' = Idle
  /\ best' = None /\ UNCHANGED scan

RegisterAgent ==
  /\ Registering
  /\ known' = TRUE /\ bare' = TRUE /\ UNCHANGED <<versions, defaultVer>>

RegisterAgentVersion(v) ==
  /\ Registering
  /\ known' = TRUE /\ versions' = versions \cup {v} /\ UNCHANGED <<bare, defaultVer>>

\* Refused for an unknown name or version.
SetDefaultAgentVersion(v) ==
  /\ Registering
  /\ defaultVer' = IF known /\ v \in versions THEN v ELSE defaultVer
  /\ UNCHANGED <<known, versions, bare>>

\* resolveAgent for name@version.
ResolveVersion(v) ==
  /\ scan = {}
  /\ resolved' = IF ~known THEN Failed("agent")
                 ELSE IF v \in versions THEN Version(v) ELSE Failed("version")
  /\ best' = None
  /\ UNCHANGED <<regVars, scan>>

\* resolveAgent for the bare name; the last case starts highestVersion.
ResolveBare ==
  /\ scan = {}
  /\ \/ ~known /\ resolved' = Failed("agent") /\ UNCHANGED scan
     \/ /\ defaultVer # None /\ UNCHANGED scan
        /\ resolved' = IF defaultVer \in versions THEN Version(defaultVer)
                       ELSE Failed("missing despite default")
     \/ defaultVer = None /\ bare /\ resolved' = Bare /\ UNCHANGED scan
     \/ /\ known /\ defaultVer = None /\ ~bare
        /\ resolved' = Idle /\ scan' = versions
  /\ best' = None
  /\ UNCHANGED regVars

\* highestVersion looks at the versions in the order the map yields them.
Examine(v) ==
  /\ v \in scan /\ scan' = scan \ {v}
  /\ best' = IF best = None \/ CompareVersions(v, best) > 0 THEN v ELSE best
  /\ resolved' = IF scan' = {} THEN Version(best') ELSE resolved
  /\ UNCHANGED regVars

AgentNext ==
  \/ RegisterAgent \/ ResolveBare
  \/ \E v \in Versions :
       \/ RegisterAgentVersion(v) \/ SetDefaultAgentVersion(v)
       \/ ResolveVersion(v) \/ Examine(v)

AgentSpec == AgentInit /\ [][AgentNext]_agentVars

-------------------------------------------------------------------------------
(* The variables' types.  SetDefaultAgentVersion accepts registered        *)
(* versions only and none is ever unregistered, so a resolution never ends *)
(* in "missing despite default".                                           *)
AgentTypeOK ==
  /\ known \in BOOLEAN /\ bare \in BOOLEAN
  /\ versions \subseteq Versions /\ scan \subseteq versions
  /\ defaultVer \in Versions \cup {None} /\ best \in Versions \cup {None}
  /\ resolved \in {Idle, Bare, Failed("agent"), Failed("version")}
                  \cup {Version(v) : v \in versions}

\* A bare name has just been resolved by highestVersion.
Chosen == resolved[1] = "version" /\ best # None /\ defaultVer = None

\* Every component of every version is a number.
Numeric == \A v \in Versions : \A i \in DOMAIN v : v[i].num >= 0

\* Release order of numeric versions: u extends v, or its first component
\* that differs is the greater number.
Newer(u, v) ==
  \E i \in 1..Len(u) :
    /\ \A k \in 1..(i - 1) : k <= Len(v) /\ u[k].num = v[k].num
    /\ i > Len(v) \/ u[i].num > v[i].num

(* Every resolution names a registered version, and where every component  *)
(* is a number, a bare name without default and bare handler resolves to   *)
(* the newest release ("rather than a surprising lexical pick",            *)
(* server.go:446), whatever the map's order.                               *)
NewestChosen ==
  AgentTypeOK /\ (Numeric /\ Chosen => \A u \in versions : ~Newer(u, best))
===============================================================================
