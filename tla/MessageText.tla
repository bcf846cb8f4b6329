---------------------------- MODULE MessageText ----------------------------
(***************************************************************************)
(* The text of a message: the template with its placeholders filled in,    *)
(* the report URL appended when the template has no place for it, and the  *)
(* cut to the length the service accepts.                                  *)
(*                                                                         *)
(* A text is a sequence of characters.  A placeholder's name, "Report: "   *)
(* and every other word count as one character.                            *)
(***************************************************************************)
EXTENDS Naturals, Sequences

CONSTANTS
    MaxTextChars,   \* MAX_TEXT_CHARS
    Context         \* notification -> placeholder -> text: template_context

\* {name} as render_template replaces it: an unknown name stays as it is.
Filled(n, name) ==
    IF Len(name) = 1 /\ name[1] \in DOMAIN Context[n]
    THEN Context[n][name[1]]
    ELSE <<"{">> \o name \o <<"}">>

\* One character; name is what follows a brace that is still open.
Fill(n, sofar, c) ==
    IF sofar.open
    THEN IF c = "}"
         THEN [out |-> sofar.out \o Filled(n, sofar.name), open |-> FALSE, name |-> <<>>]
         ELSE [sofar EXCEPT !.name = Append(@, c)]
    ELSE IF c = "{"
         THEN [sofar EXCEPT !.open = TRUE]
         ELSE [sofar EXCEPT !.out = Append(@, c)]

\* What the first i characters come to.
FilledUpTo(n, template) ==
    LET upTo[i \in 0..Len(template)] ==
            IF i = 0
            THEN [out |-> <<>>, open |-> FALSE, name |-> <<>>]
            ELSE Fill(n, upTo[i - 1], template[i])
    IN  upTo

\* A brace that is never closed and everything behind it stay as they are.
RenderTemplate(n, template) ==
    LET end == FilledUpTo(n, template)[Len(template)]
    IN  end.out \o (IF end.open THEN <<"{">> \o end.name ELSE <<>>)

Occurs(part, whole) ==
    \E i \in 1..Len(whole) - Len(part) + 1 : SubSeq(whole, i, i + Len(part) - 1) = part

UrlPlaceholder == <<"{", "report_url", "}">>
ReportUrl(n) == Context[n]["report_url"]

Render(n, template) ==
    LET rendered == RenderTemplate(n, template)
        newline  == IF rendered = <<>> \/ rendered[Len(rendered)] = "\n"
                    THEN <<>> ELSE <<"\n">>
    IN  IF Occurs(UrlPlaceholder, template)
        THEN rendered
        ELSE rendered \o newline \o <<"Report: ">> \o ReportUrl(n)

Suffix(n) == <<"\n", "Report: ">> \o ReportUrl(n)

\* Mutant: the text is cut without keeping room for the line it ends with.
TruncatedAtLimit(n, text) ==
    IF Len(text) <= MaxTextChars
    THEN text
    ELSE SubSeq(text, 1, MaxTextChars)

TruncateText(n, text) ==
    IF Len(text) <= MaxTextChars
    THEN text
    ELSE IF Len(Suffix(n)) >= MaxTextChars
         THEN SubSeq(Suffix(n), 1, MaxTextChars)
         ELSE SubSeq(text, 1, MaxTextChars - Len(Suffix(n))) \o Suffix(n)
------------------------------------------------------------------------------
\* The template has the placeholder where no earlier brace is left open.
PlacesUrl(template) ==
    \E i \in 1..Len(template) - 2 :
        /\ SubSeq(template, i, i + 2) = UrlPlaceholder
        /\ \A j \in 1..i-1 : template[j] = "{" => \E k \in j..i-1 : template[k] = "}"
==============================================================================
