------------------------------- MODULE Policy -------------------------------
(* The rules of dontlie/policy.py: what a policy file says, what the        *)
(* commands make of it, and what it decides about a call.  A glob is the    *)
(* set of models it matches, a prompt the set of phrases and of kinds of    *)
(* personal data found in it; the regular expressions are data.             *)
EXTENDS FiniteSets

CONSTANTS
  Models,       \* names of models
  Phrases,      \* substrings a rule may deny
  PiiKinds      \* keys of _PII_PATTERNS

Globs == SUBSET Models

Policies == [denyModels : SUBSET Globs, denyPrompts : SUBSET Phrases,
             allowOnly : SUBSET Globs, redactPii : BOOLEAN]

\* Policy(): nothing is forbidden.
EmptyPolicy == [denyModels |-> {}, denyPrompts |-> {}, allowOnly |-> {}, redactPii |-> FALSE]

\* Policy.load: a file that is missing or cannot be parsed is no policy.
LoadPolicy(file) == IF file \in Policies THEN file ELSE EmptyPolicy

\* The commands deny-model, deny-prompt, allow-only and redact-pii.
PolicyEdits(policy) ==
  {[policy EXCEPT !.denyModels = @ \cup {g}] : g \in Globs \ {{}}}
    \cup {[policy EXCEPT !.denyPrompts = @ \cup {s}] : s \in Phrases}
    \cup {[policy EXCEPT !.allowOnly = gs] : gs \in SUBSET {Models}}
    \cup {[policy EXCEPT !.redactPii = on] : on \in BOOLEAN}

\* Fault variant: an allow-only list that matches overrides the deny lists.
EvaluateAllowFirst(policy, model, prompt) ==
  [allowed |-> \/ \E g \in policy.allowOnly : model \in g
               \/ /\ policy.allowOnly = {}
                  /\ ~\E g \in policy.denyModels : model \in g
                  /\ policy.denyPrompts \cap prompt = {},
   redactions |-> {}]

\* evaluate(): deny_models, allow_only, deny_prompts, then redaction.
Evaluate(policy, model, prompt) ==
  LET allowed == /\ ~\E g \in policy.denyModels : model \in g
                 /\ policy.allowOnly # {} => \E g \in policy.allowOnly : model \in g
                 /\ policy.denyPrompts \cap prompt = {}
  IN  [allowed |-> allowed,
       redactions |-> IF allowed /\ policy.redactPii THEN prompt \cap PiiKinds ELSE {}]

\* The calls a policy denies whatever its allow-only list may say.
DeniedBy(policy) ==
  {call \in Models \X SUBSET (Phrases \cup PiiKinds) :
     \A globs \in SUBSET {Models} :
       ~Evaluate([policy EXCEPT !.allowOnly = globs], call[1], call[2]).allowed}
=============================================================================
