---------------------------- MODULE ReleaseGates ----------------------------
(***************************************************************************)
(* The gates of a release, which the library offers and a caller (outside  *)
(* the repository) applies one after the other: the evaluation of a suite, *)
(* the merge gate on its report, the quality guardrails, the compatibility *)
(* with the current release, and the publish gate on the version.  A       *)
(* candidate that passes them all is published and becomes the current     *)
(* release.  Rates are compared as fractions, thresholds are percentages.  *)
(***************************************************************************)
EXTENDS Integers, Sequences, FiniteSets

CONSTANTS
    VersionInput,    \* versions to try
    SuiteInput,      \* finalized suites with the outputs of an agent
    CheckInput,      \* sequences of check results, [check, passed, severity]
    DigestInput,     \* digests of a candidate
    Thresholds,      \* of the evaluation
    Baseline,        \* baseline pass rate in percent, or -1
    RequiredTag,     \* the tag of the RequireTag rule
    MaxPublished     \* bound on releases

(* EvalTestCase with the output it is given, EvalSuite, EvalThresholds.     *)
EvalTestCase == [expected : STRING, actual : STRING, tags : SUBSET STRING]

EvalSuite == Seq(EvalTestCase)

EvalThresholds == [minPass : 0..100, maxRegression : 0..100, failFast : BOOLEAN]

ReleaseDigests == [spec : STRING, tools : STRING, graph : STRING]

(* A version, or a core of -1 for text that does not parse: `core` stands   *)
(* for the three numbers in their order, `pre` for the dotted identifiers;  *)
(* digits are compared as numbers without leading zeros, whatever their     *)
(* length.                                                                  *)
Identifier == [numeric : BOOLEAN, value : Nat]

SemVersion == [core : Nat \cup {-1}, pre : Seq(Identifier)]

(* QualityCheckResult, with the highest severity among its findings.        *)
Severity == [info |-> 0, low |-> 1, medium |-> 2, high |-> 3, critical |-> 4]

CheckResult == [check : STRING, passed : BOOLEAN, severity : DOMAIN Severity \cup {"none"}]

ASSUME GatesAssumption ==
    /\ MaxPublished \in Nat /\ Baseline \in -1..100
    /\ SuiteInput \subseteq EvalSuite /\ Thresholds \in EvalThresholds
    /\ DigestInput \subseteq ReleaseDigests
    /\ VersionInput \subseteq SemVersion /\ CheckInput \subseteq Seq(CheckResult)

VARIABLES
    published,       \* versions, oldest first
    currentRelease,  \* digests of the release that is out, or NoRelease
    evidence         \* what the last published candidate passed with

gateVars == <<published, currentRelease, evidence>>

NoRelease == [spec |-> "none", tools |-> "none", graph |-> "none"]
NoEvidence == [suite |-> <<>>, checks |-> <<>>, strict |-> FALSE, approved |-> FALSE]

GatesInit ==
    /\ published = <<>>
    /\ currentRelease = NoRelease
    /\ evidence = NoEvidence

-----------------------------------------------------------------------------
Parses(v) == v.core >= 0

CompareIdentifier(x, y) ==
    IF x.numeric # y.numeric THEN (IF x.numeric THEN "less" ELSE "greater")
    ELSE IF x.value < y.value THEN "less"
    ELSE IF x.value > y.value THEN "greater" ELSE "equal"

(* cmp_prerelease: the first identifiers that differ decide, and the longer *)
(* list wins when none does.                                                *)
ComparePrerelease(a, b) ==
    LET common == 1..(IF Len(a) < Len(b) THEN Len(a) ELSE Len(b))
        differing == {i \in common : CompareIdentifier(a[i], b[i]) # "equal"}
        first == CHOOSE i \in differing : \A j \in differing : i <= j
    IN  IF differing # {} THEN CompareIdentifier(a[first], b[first])
        ELSE IF Len(a) < Len(b) THEN "less"
        ELSE IF Len(a) > Len(b) THEN "greater" ELSE "equal"

(* A pre-release and its release taken for the same version. *)
GreaterIgnoringRelease(v, w) ==
    IF v.core # w.core THEN v.core > w.core
    ELSE v.pre = <<>> \/ ComparePrerelease(v.pre, w.pre) = "greater"

(* cmp_version = Greater *)
Greater(v, w) ==
    IF v.core # w.core THEN v.core > w.core
    ELSE IF v.pre = <<>> THEN w.pre # <<>>
    ELSE w.pre # <<>> /\ ComparePrerelease(v.pre, w.pre) = "greater"

(* PublishRuleSet::standard with UniqueVersion; the order of the rules and  *)
(* fail_fast only decide which violations are reported.                     *)
PublishRules == {"semver", "bump", "digest", "unique"}

PublishCandidate(v, d) ==
    [version |-> v, spec |-> d.spec,
     previous |-> {published[i] : i \in {j \in DOMAIN published : j = Len(published)}},
     existing |-> {published[i] : i \in DOMAIN published}]

(* check_rule of publish_gate. *)
PublishViolations(c) ==
    {r \in PublishRules :
        CASE r = "semver" -> ~Parses(c.version)
          [] r = "bump" -> \E p \in c.previous : ~(Parses(c.version) /\ Greater(c.version, p))
          [] r = "unique" -> c.version \in c.existing
          [] r = "digest" -> c.spec = ""}

(* A verdict of any of the gates passes when no rule is violated. *)
VerdictPassed(violations) == violations = {}

-----------------------------------------------------------------------------
(* run_with_outputs: the cases in order, up to the first failure when       *)
(* fail_fast is set.  A case without an expected output passes; the scorers *)
(* that are not implemented do not count, and exact match is the only one   *)
(* that is.                                                                 *)
CasePassed(c) == c.expected = "any" \/ c.expected = c.actual

Executed(suite) ==
    LET failing == {i \in DOMAIN suite : ~CasePassed(suite[i])}
    IN  IF ~Thresholds.failFast \/ failing = {} THEN DOMAIN suite
        ELSE {i \in DOMAIN suite : \A j \in failing : i <= j}

(* EvalReport: the results of the cases that ran, and the baseline. *)
EvalReport(suite) ==
    [cases |-> [i \in Executed(suite) |-> [passed |-> CasePassed(suite[i]), tags |-> suite[i].tags]],
     baseline |-> Baseline]

PassedCases(report) == {i \in DOMAIN report.cases : report.cases[i].passed}

(* pass_rate >= percent / 100, an empty suite having the rate 0. *)
RateAtLeast(report, percent) ==
    IF DOMAIN report.cases = {} THEN 0 >= percent
    ELSE 100 * Cardinality(PassedCases(report)) >= percent * Cardinality(DOMAIN report.cases)

OverallPass(report) == DOMAIN report.cases # {} /\ RateAtLeast(report, Thresholds.minPass)

(* GateRuleSet::standard with a RequireTag. *)
GateRules == {"min_pass_rate", "max_regression", "require_tag"}

(* evaluate_gate on the report. *)
GateViolations(report) ==
    {r \in GateRules :
        CASE r = "min_pass_rate" -> ~RateAtLeast(report, Thresholds.minPass)
          [] r = "max_regression" ->
                report.baseline >= 0 /\ ~RateAtLeast(report, report.baseline - Thresholds.maxRegression)
          [] r = "require_tag" ->
                \E i \in DOMAIN report.cases : RequiredTag \in report.cases[i].tags /\ ~report.cases[i].passed}

-----------------------------------------------------------------------------
(* evaluate_quality_guardrails.  A check that ran twice counts with its     *)
(* last result.                                                             *)
RequiredChecks(strict) ==
    {"fmt", "lint", "test"} \cup (IF strict THEN {"verification"} ELSE {})

LastResult(results, check) ==
    CHOOSE i \in DOMAIN results :
        /\ results[i].check = check
        /\ \A j \in DOMAIN results : results[j].check = check => j <= i

GuardrailVerdict(results, strict, publish, approved) ==
    LET ran == {results[i].check : i \in DOMAIN results}
        counted == {LastResult(results, c) : c \in RequiredChecks(strict) \cap ran}
        limit == Severity[IF strict THEN "medium" ELSE "high"]
    IN  [missing  |-> RequiredChecks(strict) \ ran,
         blocked  |-> {results[i].check : i \in {j \in counted : ~results[j].passed}},
         findings |-> {i \in counted : results[i].severity # "none"
                                       /\ Severity[results[i].severity] >= limit},
         requiresApproval |-> publish /\ ~approved]

(* `passed`, and release_block_reason: the first reason in its order. *)
GuardrailPassed(v) ==
    v.missing = {} /\ v.blocked = {} /\ v.findings = {} /\ ~v.requiresApproval

BlockReason(v) ==
    IF GuardrailPassed(v) THEN "none"
    ELSE IF v.requiresApproval THEN "approval"
    ELSE IF v.missing # {} THEN "missing"
    ELSE IF v.blocked # {} THEN "failed"
    ELSE IF v.findings # {} THEN "findings" ELSE "blocked"

-----------------------------------------------------------------------------
(* CompatRuleSet::standard with NoGraphChange. *)
CompatRules == {"spec_valid", "tools", "graph", "graph_change"}

PromoteContext(d) == [candidate |-> d, current |-> {currentRelease} \ {NoRelease}]

(* evaluate_compat *)
CompatViolations(context) ==
    {r \in CompatRules :
        CASE r = "spec_valid" -> context.candidate.spec = "malformed"
          [] r = "tools" -> context.candidate.tools = ""
          [] r = "graph" -> context.candidate.graph = ""
          [] r = "graph_change" -> \E c \in context.current : context.candidate.graph # c.graph}

(* The caller. *)
Publish(v, suite, checks, digests, strict, approved) ==
    /\ Len(published) < MaxPublished
    /\ OverallPass(EvalReport(suite)) /\ VerdictPassed(GateViolations(EvalReport(suite)))
    /\ BlockReason(GuardrailVerdict(checks, strict, TRUE, approved)) = "none"
    /\ VerdictPassed(CompatViolations(PromoteContext(digests)))
    /\ VerdictPassed(PublishViolations(PublishCandidate(v, digests)))
    /\ published' = Append(published, v)
    /\ currentRelease' = digests
    /\ evidence' = [suite |-> suite, checks |-> checks, strict |-> strict, approved |-> approved]

GatesNext ==
    \E v \in VersionInput, suite \in SuiteInput, checks \in CheckInput,
       digests \in DigestInput, strict, approved \in BOOLEAN :
          Publish(v, suite, checks, digests, strict, approved)

GatesSpec == GatesInit /\ [][GatesNext]_gateVars

-----------------------------------------------------------------------------
GatesTypeOK ==
    /\ published \in Seq(VersionInput) /\ currentRelease \in ReleaseDigests \cup {NoRelease}
    /\ evidence.suite \in EvalSuite /\ evidence.strict \in BOOLEAN /\ evidence.approved \in BOOLEAN

(* Published versions only go up, and not only against the version before:  *)
(* the order of versions is transitive, pre-releases and identifiers that   *)
(* differ in kind and number included.                                      *)
VersionsIncrease ==
    \A i, j \in DOMAIN published : i < j =>
       Greater(published[j], published[i]) /\ ~Greater(published[i], published[j])

(* Every published release had evidence: some case ran and, unless the     *)
(* threshold asks for none, one passed; without fail_fast the share of the  *)
(* whole suite that passes is the threshold at least; each required check   *)
(* has a passing last result, and what the strict profile lets through the  *)
(* standard one lets through.                                               *)
ReleasedWithEvidence ==
    published # <<>> =>
       /\ evidence.suite # <<>>
       /\ Thresholds.minPass > 0 => PassedCases(EvalReport(evidence.suite)) # {}
       /\ ~Thresholds.failFast =>
             LET passing == {i \in DOMAIN evidence.suite : CasePassed(evidence.suite[i])}
             IN  100 * Cardinality(passing) >= Thresholds.minPass * Len(evidence.suite)
       /\ evidence.approved
       /\ \A c \in RequiredChecks(evidence.strict) :
             /\ \E i \in DOMAIN evidence.checks : evidence.checks[i].check = c
             /\ evidence.checks[LastResult(evidence.checks, c)].passed
       /\ GuardrailPassed(GuardrailVerdict(evidence.checks, FALSE, TRUE, TRUE))

GatesSound == VersionsIncrease /\ ReleasedWithEvidence

=============================================================================
