------------------------------ MODULE Analyser ------------------------------
(***************************************************************************)
(* The analysis of semantic.c against the rules of the language, and       *)
(* against what the repository records of its own tests.                   *)
(***************************************************************************)
EXTENDS Semantic

CONSTANTS
    Recorded,     \* programs and the reports that test/phase2 records of them
    Judged        \* programs that are compared with the rules

Rules == INSTANCE SplRules

Complete == agenda = <<>> /\ ~fault

(* A program that keeps the rules is walked without a report, and of one    *)
(* that does not the first report is a violation on the first line that has *)
(* one.  Later reports may be consequences of the first.                    *)
Agrees(errs) ==
    /\ errs = {} <=> reports = <<>>
    /\ errs # {} => <<reports[1].type, reports[1].ln>> \in Rules!Earliest(errs)
FirstReportIsRight ==
    Complete /\ program \in Judged => Agrees(Rules!Violations(program))

(* The reports on the repository's tests are the recorded ones, all of them *)
(* and in their order: those that follow from an earlier error are there.   *)
ReportsAsRecorded ==
    Complete => \A r \in Recorded : r.program = program =>
        [k \in DOMAIN reports |-> <<reports[k].type, reports[k].ln>>] = r.reports

(* The process dies only of a program that uses what has no type: a name    *)
(* that is not declared, or declared as something else, there or before.    *)
FaultsForNoType ==
    fault => \E v \in Rules!Violations(program) :
                v[1] \in {1, 2, 11, 15, 16, 17} /\ v[2] <= This.ln
=============================================================================
