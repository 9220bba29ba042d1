------------------------------ MODULE MCRuleText ------------------------------
(***************************************************************************)
(* Two threads parse texts of up to two declarations (a third one is too   *)
(* long): a template, a rule that extends it, both in one text, and texts  *)
(* with each kind of error.                                                *)
(***************************************************************************)
EXTENDS RuleText, TLC

CONSTANTS t1, t2, tpl, plain

D(kind, name, base) == [kind |-> kind, name |-> name, base |-> base]
TemplateText == <<D("template", tpl, NoName)>>
ExtendingText == <<D("extends", plain, tpl)>>
TextOfBoth == TemplateText \o ExtendingText
BrokenText == <<D("rule", plain, NoName), D("broken", plain, NoName)>>
FlawedText == <<D("flawed", tpl, NoName)>>
StrayText == <<D("rule", plain, NoName), D("stray", plain, NoName)>>
LongText == TemplateText \o TextOfBoth

MCTexts == {TemplateText, ExtendingText, TextOfBoth, BrokenText, FlawedText, StrayText, LongText}
ThreadSymmetry == Permutations(Threads)
=============================================================================
