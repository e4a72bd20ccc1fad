----------------------------- MODULE Redaction -----------------------------
(* What leaves a text before it is signed (dontlie/redaction.py, called by  *)
(* storage.append) or shared (dontlie/privacy.py).  A text is a sequence of *)
(* the characters 1..TextLength; what the regular expressions find in it is *)
(* an input: for each detector, disjoint spans.  Detectors are numbered in  *)
(* the order of the table, which decides between two that overlap.          *)
EXTENDS Lists, FiniteSetsExt, SequencesExt

CONSTANTS
  TextLength,   \* characters of a text
  Detectors,    \* number of detectors
  NoRules       \* an extra without a list of rules

ASSUME RedactionAssumption == TextLength \in Nat /\ Detectors \in Nat

VARIABLES
  found,        \* found[d]: the spans detector d matches in the text
  outcome       \* what was made of the text: a receipt, a document, or nothing yet

redactionVars == <<found, outcome>>

Text == [i \in 1..TextLength |-> i]
Spans == {s \in [from : 0..TextLength, to : 0..TextLength] : s.from < s.to}
Overlaps(a, b) == a.from < b.to /\ b.from < a.to

\* re.finditer: the matches of one detector do not overlap.
MatchSets ==
  {M \in SUBSET Spans : \A a, b \in M : a # b => ~ Overlaps(a, b)}

Hits(matches) ==
  UNION {{[rule |-> d, from |-> s.from, to |-> s.to] : s \in matches[d]} : d \in 1..Detectors}

\* A token names the rule; it is one symbol of the redacted text.
Token(hit) == TextLength + hit.rule
Tokens(text) == {i \in DOMAIN text : text[i] \notin 1..TextLength}

RedactionInit == found \in [1..Detectors -> MatchSets] /\ outcome = [is |-> "nothing"]

(* ------------------------------------------------ before signing -------- *)

\* Sorted by start, longer first; the sort is stable.
ByStart(hits) ==
  {p \in hits \X hits :
     \/ p[1].from < p[2].from
     \/ p[1].from = p[2].from /\ p[1].to > p[2].to
     \/ p[1].from = p[2].from /\ p[1].to = p[2].to /\ p[1].rule < p[2].rule}

\* A hit that begins before the last one kept has ended is dropped.
Merge(hits) ==
  LET order == Sorted(hits, ByStart(hits))
      Keep == [k \in DOMAIN order |->
                 [merged \in [kept : Seq(hits), end : Nat] |->
                    IF order[k].from < merged.end THEN merged
                    ELSE [kept |-> Append(merged.kept, order[k]), end |-> order[k].to]]]
  IN  Looped(Keep, [kept |-> <<>>, end |-> 0]).kept

Replaced(text, hit) ==
  SubSeq(text, 1, hit.from) \o <<Token(hit)>> \o SubSeq(text, hit.to + 1, Len(text))

\* Fault variant: replacing from the first match to the last, by the places
\* found before.
ApplyForward(text, matches) ==
  LET detections == Merge(Hits(matches))
      Replace == [k \in DOMAIN detections |->
                    [rest \in Seq(Nat) |-> Replaced(rest, detections[k])]]
  IN  [text |-> Looped(Replace, text), detections |-> detections]

\* Replaced from the last to the first, so that the earlier spans stay where
\* they were found.
ApplyPolicy(text, matches) ==
  LET detections == Merge(Hits(matches))
      Replace == [k \in DOMAIN detections |->
                    [rest \in Seq(Nat) |-> Replaced(rest, detections[Len(detections) + 1 - k])]]
  IN  [text |-> Looped(Replace, text), detections |-> detections]

\* The summary that goes into extra, unless the caller's extra has one.
Summary(reports, given) ==
  IF given # NoRules THEN given
  ELSE [redacted |-> \E r \in DOMAIN reports : reports[r].detections # <<>>,
        rules |-> UNION {{hit.rule : hit \in Range(reports[r].detections)} : r \in DOMAIN reports},
        count |-> Len(reports[1].detections) + Len(reports[2].detections)]

Unmatched == [d \in 1..Detectors |-> {}]

\* storage.append of a prompt and a response, with DONTLIE_REDACTION_POLICY on
\* or off.
AppendRedacted ==
  /\ outcome.is = "nothing"
  /\ \E active \in BOOLEAN, response \in {found, Unmatched},
        given \in {NoRules, [redacted |-> FALSE, rules |-> {}, count |-> 0]} :
       LET reports == <<ApplyPolicy(Text, found), ApplyPolicy(Text, response)>> IN
       outcome' = [is |-> "receipt", active |-> active, given |-> given,
                   matched |-> <<found, response>>,
                   texts |-> IF active THEN <<reports[1].text, reports[2].text>> ELSE <<Text, Text>>,
                   extra |-> IF active THEN Summary(reports, given) ELSE given]
  /\ UNCHANGED found

(* ------------------------------------------------ before sharing -------- *)

\* DetectorRegistry.detect: the detector registered first wins, and a match
\* that overlaps a winner is dropped as a whole.
FirstRegistered(hits) ==
  {p \in hits \X hits :
     p[1].rule < p[2].rule \/ (p[1].rule = p[2].rule /\ p[1].from < p[2].from)}

Detect(matches) ==
  LET hits == Hits(matches)
      order == Sorted(hits, FirstRegistered(hits))
      Take == [k \in DOMAIN order |->
                 [claimed \in SUBSET hits |->
                    IF \E other \in claimed : Overlaps(order[k], other) THEN claimed
                    ELSE claimed \cup {order[k]}]]
      claims == Looped(Take, {})
  IN  Sorted(claims, {p \in claims \X claims : p[1].from < p[2].from})

\* The text between two spans is copied, each span is replaced.
RedactText(text, hits) ==
  LET Piece == [k \in DOMAIN hits |->
                  [sofar \in [pieces : Seq(Nat), cursor : Nat] |->
                     IF \/ hits[k].from < sofar.cursor
                        \/ hits[k].to > Len(text)
                        \/ hits[k].from >= hits[k].to
                     THEN sofar
                     ELSE [pieces |-> sofar.pieces \o SubSeq(text, sofar.cursor + 1, hits[k].from)
                                        \o <<Token(hits[k])>>,
                           cursor |-> hits[k].to]]]
      done == Looped(Piece, [pieces |-> <<>>, cursor |-> 0])
  IN  done.pieces \o SubSeq(text, done.cursor + 1, Len(text))

Modes == {"fingerprint", "redacted", "forensic"}

\* The fields of a record, and those it lacks from another.
Over(record, other) ==
  [f \in DOMAIN record \cup DOMAIN other |-> IF f \in DOMAIN record THEN record[f] ELSE other[f]]

\* The fields that are absent are left out of the document (as_dict).
BuildEvidence(mode, matches) ==
  LET hits == Detect(matches)
      with(fields) == Over([mode |-> mode, digest |-> Text], fields)
      Reported == IF hits = <<>> THEN <<>> ELSE [redactions |-> hits]
  IN CASE mode = "fingerprint" -> with([fingerprint |-> Text])
       [] mode = "redacted"    -> with(Over(Reported, [text |-> RedactText(Text, hits)]))
       [] mode = "forensic"    -> with(Over(Reported, [text |-> Text, fingerprint |-> Text]))

\* verify_evidence: absent fields get their defaults back.
Blank == [redactions |-> <<>>, text |-> <<>>, fingerprint |-> <<>>]
VerifyEvidence(document) == Over(document, Blank)

\* forensic_diff_summary of a redacted document: the spans it reports are cut
\* out of the original once more.
ByteEqual(original, evidence) ==
  evidence.mode = "redacted" /\ RedactText(original, evidence.redactions) = evidence.text

\* build_evidence and to_json.  A redacted text may lose one symbol on its way.
ShareEvidence ==
  /\ outcome.is = "nothing"
  /\ \E mode \in Modes :
       LET built == BuildEvidence(mode, found)
           Damaged == IF mode # "redacted" THEN {}
                      ELSE {[built EXCEPT !.text = RemoveAt(@, i)] : i \in DOMAIN built.text}
       IN \E document \in {built} \cup Damaged :
            outcome' = [is |-> "document", intact |-> document = built,
                        evidence |-> VerifyEvidence(document)]
  /\ UNCHANGED found

RedactionNext == AppendRedacted \/ ShareEvidence

-----------------------------------------------------------------------------
Claimed(hits) == {i \in 1..TextLength : \E h \in hits : h.from < i /\ i <= h.to}
Shown(text) == Omitting(text, {text[i] : i \in Tokens(text)})
Kept(hits) == Omitting(Text, Claimed(hits))
RulesIn(text) == {text[i] - TextLength : i \in Tokens(text)}

\* Of a text with these matches, what was reported hides whole matches, and
\* none of them is shown unbroken.
Hides(text, matches, hits) ==
  /\ hits \subseteq Hits(matches) /\ Shown(text) = Kept(hits)
  /\ Cardinality(Tokens(text)) = Cardinality(hits)
  /\ RulesIn(text) = {h.rule : h \in hits}
  /\ \A h \in Hits(matches) : Claimed({h}) \cap Claimed(hits) # {}

\* A receipt that is signed while redaction is on, and a redacted document,
\* show of the text exactly what no reported match covers, in its order, with
\* one token for each; no match is left whole, however the matches of two
\* detectors overlap (what is left of one that was dropped does stay).  The
\* receipt's own count and rules are those of its tokens, unless the caller
\* brought a summary.  A fingerprint shows nothing, and the comparison with
\* the original finds a redacted document from which anything is missing.
NothingLeaks ==
  /\ outcome.is = "receipt" /\ outcome.active =>
       /\ \A r \in {1, 2} :
            Hides(outcome.texts[r], outcome.matched[r], Range(Merge(Hits(outcome.matched[r]))))
       /\ outcome.given = NoRules =>
            /\ outcome.extra.count = Cardinality(Tokens(outcome.texts[1]))
                                        + Cardinality(Tokens(outcome.texts[2]))
            /\ outcome.extra.rules = RulesIn(outcome.texts[1]) \cup RulesIn(outcome.texts[2])
            /\ outcome.extra.redacted <=> outcome.extra.rules # {}
  /\ outcome.is = "document" =>
       /\ outcome.evidence.mode = "fingerprint" =>
            outcome.evidence.text = <<>> /\ outcome.evidence.redactions = <<>>
       /\ outcome.evidence.mode = "redacted" =>
            /\ ByteEqual(Text, outcome.evidence) <=> outcome.intact
            /\ outcome.intact =>
                 Hides(outcome.evidence.text, found, Range(outcome.evidence.redactions))
=============================================================================
