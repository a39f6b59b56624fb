-------------------------- MODULE MCFileRecordings --------------------------
(***************************************************************************)
(* Two recordings, the second under the id of the first, for TLC.          *)
(***************************************************************************)
EXTENDS FileRecordings

CONSTANTS r1, r2, s1

MCSidOf == [r \in Recording |-> s1]
MCFormatOf == (r1 :> "i8" @@ r2 :> "pcm16")

\* One byte, which is no whole 16-bit sample, and two.
MCSamples == {<<7>>, <<200, 255>>}

Item(type, contents) == [type |-> type, content |-> contents]
OutputText(text) == [type |-> "output_text", text |-> text]
Refusal == [type |-> "refusal", text |-> NoText]
Plain == [type |-> "text", text |-> "plain"]

Thought == Item("reasoning", <<OutputText("thought")>>)
Fixed == Item("message", <<OutputText("fixed")>>)
Refused == Item("message", <<Refusal>>)
Emptied == Item("message", <<Refusal, OutputText(NoText)>>)
Spoken == Item("message", <<Plain>>)
NoContents == Item("message", <<>>)

AnExchange(went, status, json, output) ==
    [went |-> went, status |-> status, json |-> json, output |-> output]

\* Every way to fail, with a body where there is one; and of those that
\* succeed, no text at all, and the text behind, before or without others.
MCExchanges ==
    {AnExchange("broken", 200, FALSE, <<>>), AnExchange("through", 500, TRUE, <<Fixed>>),
     AnExchange("through", 200, FALSE, <<>>)} \cup
    {AnExchange("through", 200, TRUE, output) :
        output \in {<<NoContents>>, <<Thought>>, <<Thought, Fixed>>, <<NoContents, Refused>>,
                    <<Thought, Emptied>>, <<Thought, Spoken>>, <<Fixed, Thought>>}}

\* An 8-bit sample is centred, and a 16-bit one survives its conversion, for
\* every byte and a word of each sign.
ASSUME \A b \in Byte : Int8(Int8Process(<<b>>)[1]) = b - 128
ASSUME \A low \in {0, 1, 127, 128, 255}, high \in {0, 127, 128, 255} :
         Int16Process(<<low, high>>) = <<low, high>>
=============================================================================
