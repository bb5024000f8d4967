---------------------------- MODULE MCModelCall ----------------------------
(***************************************************************************)
(* Checking ModelCall with TLC.  The texts are all those of up to MaxAny   *)
(* tokens, every object of up to MaxAround tokens with up to one token     *)
(* before and after it, every object of up to MaxFramed tokens in a fence, *)
(* in an array and in a fenced array, and every object of up to MaxObject  *)
(* tokens between words.                                                   *)
(***************************************************************************)
EXTENDS ModelCall

CONSTANTS MaxAny, MaxObject, MaxAround, MaxFramed

TextsUpTo(max) == UNION {[1 .. n -> Tokens] : n \in 0 .. max}

\* Every JSON object of up to max tokens.
ObjectsUpTo(max) ==
  {o \in {<<"open">> \o m \o <<"close">> : m \in TextsUpTo(max - 2)} : JsonObject(o)}

InTool == ObjectsUpTo(MaxObject)

\* What stands before and after an object.
Frames ==
  {<< <<"fence", "word", "nl">>, <<"nl", "fence">> >>,
   << <<"lbracket">>, <<"rbracket">> >>,
   << <<"fence", "literal", "nl", "lbracket">>, <<"rbracket", "fence">> >>}

\* The answers in words.
Said ==
  TextsUpTo(MaxAny)
  \cup {p \o o \o q : p \in TextsUpTo(1), o \in ObjectsUpTo(MaxAround), q \in TextsUpTo(1)}
  \cup {f[1] \o o \o f[2] : f \in Frames, o \in ObjectsUpTo(MaxFramed)}
  \cup {<<"word">> \o o \o <<"word">> : o \in InTool}

=============================================================================
