------------------------------ MODULE Rendering ------------------------------
(***************************************************************************)
(* How an engagement letter is made out of its template                    *)
(* (packages/documents/src/docx-renderer/render.ts, ooxml/blocks.ts,       *)
(* template-engine/manifest.ts, sanitation/sanitize.ts).  A body is a      *)
(* sequence of blocks; what is written in a block is the set of its marks: *)
(* wording, tokens still to be filled, and what was printed for a token.   *)
(* Runs, styles, highlights, headers and page counts are left out; so is   *)
(* the editing of a narrative section, which only cover letters have.      *)
(***************************************************************************)
EXTENDS Naturals, SequencesExt

Word(words) == <<"word", words>>
Token(name) == <<"token", name>>
Printed(name, value) == <<"printed", name, value>>

Block(tag, box, text) == [tag |-> tag, box |-> box, text |-> text]
Paragraph(text) == Block("w:p", "none", text)
Box(text) == Block("w:p", "open", text)
Table(text) == Block("w:tbl", "none", text)
Page == Block("w:sectPr", "none", {})

Anchor(role, token, kind, required) ==
  [role |-> role, token |-> token, kind |-> kind, required |-> required]
BlockRange(startsWith, endsBefore) == [startsWith |-> startsWith, endsBefore |-> endsBefore]
Tickable(code, mark, always) == [code |-> code, mark |-> mark, always |-> always]

(* The approved templates and their manifests, reduced to one of each kind. *)
T2Letter ==
  [body |-> <<Paragraph({Word("CORPORATE INCOME TAX"), Token("corporation.legal_name")}),
              Box({Word("Compilation engagement under CSRS 4200")}),
              Box({Token("services.other_included")}),
              Paragraph({Word("3A. Optional compilation engagement")}),
              Paragraph({Token("compilation.report_date")}),
              Paragraph({Word("4. Responsibilities")}),
              Table({Word("ACCEPTANCE"), Token("signature.officer_date")}),
              Paragraph({Word("Compilation engagement particulars")}),
              Table({Token("compilation.intended_use")}),
              Paragraph({Word("Optional or additional services")}),
              Paragraph({Word("Internal customization checklist")}),
              Paragraph({Word("remove before sending")}), Page>>,
   name |-> "corporation.legal_name",
   required |-> {"corporation.legal_name"},
   sections |-> {[key |-> "csrs_4200", requiredFields |-> {"compilation.intended_use"},
                  ranges |-> {BlockRange("3A. Optional compilation engagement", "4. Responsibilities"),
                              BlockRange("Compilation engagement particulars",
                                    "Optional or additional services")}]},
   internalOnly |-> {BlockRange("Internal customization checklist", "")},
   forbidden |-> {"Internal customization checklist", "remove before sending"},
   demanded |-> {"CORPORATE INCOME TAX", "ACCEPTANCE"},
   checkboxes |-> <<Tickable("t2.csrs4200", Word("Compilation engagement under CSRS 4200"), FALSE),
                    Tickable("t2.other_included", Token("services.other_included"), FALSE)>>,
   anchors |-> {Anchor("AUTHORIZED_SIGNING_OFFICER", "signature.officer_date", "AUTO_PLACED", TRUE)}]

T1JointLetter ==
  [body |-> <<Paragraph({Word("T1 PERSONAL INCOME TAX"), Token("taxpayer1.full_legal_name")}),
              Box({Word("Federal T1 Return")}),
              Box({Word("Fixed fee of"), Token("pricing.t1_fee")}),
              Table({Word("ELECTRONIC ACCEPTANCE"), Token("signature.taxpayer1"),
                     Token("signature.taxpayer1_date"), Token("signature.taxpayer2")}),
              Table({Token("signature.firm")}), Page>>,
   name |-> "taxpayer1.full_legal_name",
   required |-> {"taxpayer1.full_legal_name", "pricing.t1_fee"},
   sections |-> {}, internalOnly |-> {}, forbidden |-> {},
   demanded |-> {"T1 PERSONAL INCOME TAX", "ELECTRONIC ACCEPTANCE"},
   checkboxes |-> <<Tickable("t1.federal_return", Word("Federal T1 Return"), TRUE),
                    Tickable("t1.fee_fixed", Word("Fixed fee of"), FALSE)>>,
   anchors |-> {Anchor("TAXPAYER_1", "signature.taxpayer1", "SIGNATURE", TRUE),
                Anchor("TAXPAYER_1", "signature.taxpayer1_date", "DATE", TRUE),
                Anchor("TAXPAYER_2", "signature.taxpayer2", "SIGNATURE", TRUE),
                Anchor("FIRM_SIGNER", "signature.firm", "SIGNATURE", FALSE)}]

-----------------------------------------------------------------------------
(* The elements of a finite set, by ranks of which no two are equal. *)
Ranked(rank) ==
  LET place == [x \in DOMAIN rank |-> Cardinality({y \in DOMAIN rank : rank[y] =< rank[x]})]
  IN  [n \in 1 .. Cardinality(DOMAIN rank) |-> CHOOSE x \in DOMAIN rank : place[x] = n]

(* Whom Adobe asks, and in which order: by signing order, then by role.      *)
RoleRank(role) ==
  CASE role = "AUTHORIZED_SIGNING_OFFICER" -> 1 [] role = "FIRM_SIGNER" -> 2
    [] role = "TAXPAYER_1" -> 3 [] role = "TAXPAYER_2" -> 4

orderForAdobeParticipantSets(signers) ==
  Ranked([s \in ToSet(signers) |-> 4 * s.order + RoleRank(s.role)])

(* The set a role occupies; 0 for a role nobody holds. *)
resolveSignerIndices(signers, role) ==
  LET sets == orderForAdobeParticipantSets(signers)
  IN  IF \E i \in DOMAIN sets : sets[i].role = role
      THEN CHOOSE i \in DOMAIN sets : sets[i].role = role ELSE 0

(* A line to sign on; no tag is written where Adobe places its own field. *)
Line == <<"LINE", 0>>
buildAdobeTag(kind, index) == IF kind = "AUTO_PLACED" THEN Line ELSE <<kind, index>>

-----------------------------------------------------------------------------
Showing(body, mark) == {i \in DOMAIN body : mark \in body[i].text}
Earliest(places) == {i \in places : \A j \in places : i =< j}

(* The blocks of a range; none where one of its ends is not found. *)
resolveRange(body, range) ==
  LET starts == Showing(body, Word(range.startsWith))
      from == Min(starts)
      ends == {i \in Showing(body, Word(range.endsBefore)) : i > from}
  IN  IF starts = {} THEN {}
      ELSE IF range.endsBefore = "" THEN {i \in DOMAIN body : i >= from /\ body[i].tag # "w:sectPr"}
      ELSE IF ends = {} THEN {} ELSE from..(Min(ends) - 1)

removeRanges(body, removed) ==
  LET kept == Ranked([i \in DOMAIN body \ removed |-> i])
  IN  [n \in DOMAIN kept |-> body[kept[n]]]

(* An approved change of wording takes the place of a whole paragraph (here  *)
(* there is one at most, so that none meets what another left).              *)
Places(body, change) == {i \in Showing(body, Word(change.anchor)) : body[i].tag = "w:p"}
Reworded(body, changes) ==
  [i \in DOMAIN body |->
     LET mine == {c \in changes : i \in Earliest(Places(body, c))}
     IN  IF mine = {} THEN body[i] ELSE Paragraph({Word((CHOOSE c \in mine : TRUE).revised)})]

(* The rules are applied one after the other, each to the first paragraph    *)
(* with its mark and a box; one that finds none is passed over.              *)
BoxOf(body, rule) == Earliest({i \in Showing(body, rule.mark) : body[i].box # "none"})
Ticked(rule, selected) == IF rule.always \/ rule.code \in selected THEN "ticked" ELSE "open"

applyCheckboxes(body, rules, selected) ==
  [i \in DOMAIN body |->
     LET mine == {k \in DOMAIN rules : i \in BoxOf(body, rules[k])}
     IN  Block(body[i].tag, IF mine = {} THEN body[i].box ELSE Ticked(rules[Max(mine)], selected),
               body[i].text)]

(* Every token goes, with a value or without. *)
substituteTokens(body, values) ==
  [i \in DOMAIN body |->
     Block(body[i].tag, body[i].box,
           {mark \in body[i].text : mark[1] # "token"} \union
           {Printed(t, values[t]) : t \in {u \in DOMAIN values : Token(u) \in body[i].text}})]

-----------------------------------------------------------------------------
NoDocument == <<>>

(* What is read of the engagement: the values, the services selected, the    *)
(* compilation a reviewer confirmed, the approved changes of wording.        *)
includedSections(template, details) ==
  {s \in template.sections : details.compilation = "yes"}

requiredFieldTokens(template, details) ==
  template.required \union UNION {s.requiredFields : s \in includedSections(template, details)}

Selected(details) ==
  details.services \union IF details.compilation = "yes" THEN {"t2.csrs4200"} ELSE {}

Trimmed(template, details) ==
  LET left == template.sections \ includedSections(template, details)
      ranges == template.internalOnly \union UNION {s.ranges : s \in left}
  IN  removeRanges(template.body, UNION {resolveRange(template.body, r) : r \in ranges})

(* A missing signature field stops a copy that is to be signed. *)
Signable(template, body, signers) ==
  \A anchor \in template.anchors : anchor.required =>
    /\ resolveSignerIndices(signers, anchor.role) # 0
    /\ anchor.kind # "AUTO_PLACED" => Showing(body, Token(anchor.token)) # {}

SignatureValue(anchor, mode, signers) ==
  LET index == resolveSignerIndices(signers, anchor.role)
  IN  IF mode = "DRAFT" \/ index = 0 THEN Line ELSE buildAdobeTag(anchor.kind, index)

(* The value of every token: the signature fields win over what was given.   *)
ValueOf(template, details, mode, signers, token) ==
  IF \E anchor \in template.anchors : anchor.token = token
  THEN SignatureValue(CHOOSE a \in template.anchors : a.token = token, mode, signers)
  ELSE IF token \in details.blank THEN "" ELSE IF token = template.name THEN details.name ELSE "given"

TokensOf(template) ==
  {t[2] : t \in {m \in UNION {template.body[i].text : i \in DOMAIN template.body} : m[1] = "token"}}

renderDocx(template, details, mode, signers) ==
  LET trimmed == Trimmed(template, details)
      reworded == Reworded(trimmed, details.wording)
      ticked == applyCheckboxes(reworded, template.checkboxes, Selected(details))
  IN  IF \/ \E change \in details.wording : Places(trimmed, change) = {}
         \/ mode = "FOR_SIGNATURE" /\ ~Signable(template, reworded, signers)
      THEN NoDocument
      ELSE substituteTokens(ticked, [t \in TokensOf(template) |->
                                       ValueOf(template, details, mode, signers, t)])

-----------------------------------------------------------------------------
(* What the validation holds against a draft.  The same signature field twice *)
(* cannot be found in a draft, which carries none.                            *)
Shows(body, words) == Showing(body, Word(words)) # {}

validateRenderedDocument(template, details, body) ==
  {"INTERNAL_CONTENT_PRESENT" : words \in {w \in template.forbidden : Shows(body, w)}} \union
  {"REQUIRED_TEXT_MISSING" : words \in {w \in template.demanded : ~Shows(body, w)}} \union
  {"REQUIRED_FIELD_BLANK" : t \in requiredFieldTokens(template, details) \intersect details.blank} \union
  {"CLIENT_NAME_MISSING" : wrong \in {n \in {details.name} :
      n # "legal name" \/ Showing(body, Printed(template.name, n)) = {}}}
=============================================================================
