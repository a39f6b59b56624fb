--------------------------- MODULE TextCorrection ---------------------------
(***************************************************************************)
(* What OpenAITextGenerationService.FixText makes of an exchange with      *)
(* OpenAI's Responses API: how the exchange went, the status, whether the  *)
(* body is JSON, and the sequence of output items, each with a type and a  *)
(* sequence of contents.  Texts are opaque.                                *)
(***************************************************************************)
EXTENDS SequencesExt

NoText == ""

\* OutputMessage and OutputContent: JSON that lacks a text has an empty one.
Content == [type : STRING, text : STRING]
OutputItem == [type : STRING, content : Seq(Content)]
Exchange == [went : STRING, status : Nat, json : BOOLEAN, output : Seq(OutputItem)]

\* CreateResponse: no answer in 15 s, a body that breaks off, a status other
\* than 200 and a body that is not JSON are errors.
Succeeded(exchange) ==
    /\ exchange.went = "through"
    /\ exchange.status = 200
    /\ exchange.json

IsOutputText(content) == content.type = "output_text"
HasOutputText(contents) == \E i \in DOMAIN contents : IsOutputText(contents[i])

\* The first output_text of an item, even an empty one, else its first text.
ContentText(contents) ==
    IF HasOutputText(contents)
      THEN contents[SelectInSeq(contents, IsOutputText)].text
      ELSE contents[1].text

\* The loop returns at this item.
Answers(item) ==
    /\ item.type = "message"
    /\ item.content # <<>>
    /\ HasOutputText(item.content) \/ item.content[1].text # NoText

\* Mutant: the text of the first item, whatever its type.
ExtractFirst(output) ==
    IF output = <<>> \/ output[1].content = <<>> THEN NoText
    ELSE ContentText(output[1].content)

ExtractTextFromResponse(output) ==
    LET found == SelectInSeq(output, Answers) IN
    CASE output = <<>> -> NoText
      [] found # 0 -> ContentText(output[found].content)
      [] OTHER -> IF output[1].content = <<>> THEN NoText
                  ELSE ContentText(output[1].content)

\* The output of a response, or no response: an error.
GenerateResponse(exchange) == IF Succeeded(exchange) THEN {exchange.output} ELSE {}

\* The result, or none for an error; an empty text is not sent at all.
FixText(text, exchange) ==
    IF text = NoText THEN {NoText}
    ELSE {ExtractTextFromResponse(output) : output \in GenerateResponse(exchange)}

\* HandleStopMessage: an error of FixText leaves the original text.
Corrected(text, exchange) ==
    LET fixed == FixText(text, exchange) IN
    IF fixed = {} THEN text ELSE CHOOSE t \in fixed : TRUE
=============================================================================
