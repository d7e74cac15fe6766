------------------------ MODULE RepositoryAuthority ------------------------
(* What doctor --github concludes from the two GitHub APIs about the branch  *)
(* CI guards (cli/doctor.ts githubAuthority, github-authority.ts).  GitHub   *)
(* holds rulesets and, beside them, classic protection; doctor reads what it *)
(* is let read.                                                              *)
EXTENDS Naturals, FiniteSets

CONSTANTS
    RequiredCheck, \* the status checks the repository requires
    Trusted,       \* the integration the checks are bound to
    Rulesets,      \* rulesets a branch may be under
    Classics,      \* classic protection a branch may have
    Unseen         \* what a reader is not shown

ASSUME GithubAssumption == Unseen \notin Classics /\ \A r \in Rulesets : r.bypass # Unseen

VARIABLES
    guarding, \* the rulesets in force and the classic protection
    bound,    \* this repository's checks name an integration
    pages,    \* the rules read
    lost,     \* a page of them could not be read
    details,  \* ruleset -> its bypass actors as shown, for those read
    legacy,   \* the classic protection as read: Unseen before, or refused
    stage,
    findings
githubVars == <<guarding, bound, pages, lost, details, legacy, stage, findings>>

-----------------------------------------------------------------------------
(* The evaluation of a snapshot.                                             *)
Shown(protection) == IF protection = Unseen THEN {} ELSE {protection}
Sources(rules, protection) == rules \cup Shown(protection)
Reported(sources, check) == {c.by : c \in {d \in UNION {s.checks : s \in sources} : d.name = check}}
Evaluate(rules, protection, bypass) ==
    LET sources == Sources(rules, protection) IN
    {<<"require", check>> : check \in {k \in RequiredCheck : Reported(sources, k) = {}}}
    \cup {<<"bind", check>> : check \in {k \in RequiredCheck : bound /\ Reported(sources, k) \notin {{}, {Trusted}}}}
    \cup (IF \E s \in sources : s.owners THEN {} ELSE {<<"require", "code owner">>})
    \cup (IF \E s \in sources : s.dismiss THEN {} ELSE {<<"dismiss", "stale">>})
    \cup (IF bypass = Unseen THEN {<<"bypass", "unknown">>}
          ELSE IF bypass # {} THEN {<<"bypass", "remove">>} ELSE {})

(* A ruleset whose actors are not shown makes them unknown, and so does a    *)
(* page not read, unless some ruleset shows some; none at all to look at is  *)
(* an empty list.                                                            *)
BypassActors(rules, shown) ==
    LET some == UNION {shown[r] : r \in {q \in DOMAIN shown : shown[q] # Unseen}} IN
    IF some # {} THEN some
    ELSE IF lost \/ \E r \in rules : ~r.known \/ shown[r] = Unseen THEN Unseen ELSE {}

-----------------------------------------------------------------------------
GithubInit ==
    /\ guarding \in [rulesets : SUBSET Rulesets, classic : Classics \cup {Unseen}]
    /\ Cardinality(guarding.rulesets) <= 2
    /\ bound \in BOOLEAN
    /\ pages = {} /\ lost = FALSE /\ details = << >> /\ legacy = Unseen /\ stage = "rules" /\ findings = {}

(* The rules come a page at a time; when one cannot be read those before it  *)
(* are judged, and the loss is a finding of its own.                         *)
ReadPage(r) ==
    /\ stage = "rules" /\ r \in guarding.rulesets \ pages
    /\ pages' = pages \cup {r} /\ UNCHANGED <<guarding, bound, lost, details, legacy, stage, findings>>
RulesRead ==
    /\ stage = "rules" /\ pages = guarding.rulesets
    /\ stage' = "details" /\ UNCHANGED <<guarding, bound, pages, lost, details, legacy, findings>>
PageFails ==
    /\ stage = "rules"
    /\ lost' = TRUE /\ stage' = "details" /\ UNCHANGED <<guarding, bound, pages, details, legacy, findings>>
(* A ruleset's detail may be refused, or shown without its bypass actors; a  *)
(* rule of unknown provenance has none to ask for.                           *)
ReadDetail(r, shown) ==
    /\ stage = "details" /\ r \in pages \ DOMAIN details /\ r.known
    /\ details' = [q \in DOMAIN details \cup {r} |-> IF q # r THEN details[q] ELSE IF shown THEN r.bypass ELSE Unseen]
    /\ UNCHANGED <<guarding, bound, pages, lost, legacy, stage, findings>>
DetailsRead ==
    /\ stage = "details" /\ DOMAIN details = {r \in pages : r.known}
    /\ stage' = "judge" /\ UNCHANGED <<guarding, bound, pages, lost, details, legacy, findings>>

Verdict(protection) ==
    Evaluate(pages, protection, BypassActors(pages, details))
    \cup (IF lost THEN {<<"rules", "unverified">>} ELSE {})
    \cup {<<"ruleset", "unverified">> : r \in {q \in DOMAIN details : details[q] = Unseen}}
    \cup {<<"provenance", "unknown">> : r \in {q \in pages : ~q.known}}
(* Rulesets alone may be enough; otherwise classic protection may supply     *)
(* what they lack.                                                           *)
JudgeRules ==
    /\ stage = "judge"
    /\ findings' = Verdict(Unseen)
    /\ stage' = IF Verdict(Unseen) = {} THEN "ended" ELSE "classic"
    /\ UNCHANGED <<guarding, bound, pages, lost, details, legacy>>
JudgeClassic(seen) ==
    /\ stage = "classic"
    /\ legacy' = IF seen THEN guarding.classic ELSE Unseen
    /\ findings' = Verdict(legacy')
                   \cup (IF legacy' = Unseen /\ Verdict(Unseen) # {} THEN {<<"classic", "not inspected">>} ELSE {})
    /\ stage' = "ended" /\ UNCHANGED <<guarding, bound, pages, lost, details>>

GithubNext ==
    \/ \E r \in Rulesets : ReadPage(r)
    \/ RulesRead \/ PageFails
    \/ \E r \in Rulesets, shown \in BOOLEAN : ReadDetail(r, shown)
    \/ DetailsRead \/ JudgeRules
    \/ \E seen \in BOOLEAN : JudgeClassic(seen)
GithubSpec == GithubInit /\ [][GithubNext]_githubVars

-----------------------------------------------------------------------------
(* No finding means the branch is held: every check required, and reported   *)
(* by the trusted integration where the repository names one; code owners    *)
(* and fresh approvals required; nobody past a ruleset.                      *)
InForceNow == guarding.rulesets \cup Shown(guarding.classic)
AuthorityHeld ==
    stage = "ended" /\ findings = {} =>
        /\ \A check \in RequiredCheck : \E s \in InForceNow : \E c \in s.checks : c.name = check /\ (bound => c.by = Trusted)
        /\ \E s \in InForceNow : s.owners
        /\ \E s \in InForceNow : s.dismiss
        /\ \A r \in guarding.rulesets : r.bypass = {}
===========================================================================
