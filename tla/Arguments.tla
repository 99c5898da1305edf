------------------------------ MODULE Arguments ------------------------------
(***************************************************************************)
(* How the chunk size is read from the command line (parse_chunk_size and  *)
(* parse_digits; src/v1 and src/v2 have the same code).  A text, which has *)
(* been changed to lower case, is represented by the number in front of    *)
(* its unit, or NotANumber, and the unit it ends with: "" for none.        *)
(***************************************************************************)
EXTENDS Integers

CONSTANTS
    Word,          \* 2^w, w the width of std::size_t
    Multiplier,    \* g_multipliers: a function from the units to their sizes
    MinChunk, MaxChunk, DefaultChunk,
    NotANumber,    \* digits that are missing or no digits
    NoText         \* the option is not given

ASSUME ArgumentInputs ==
    /\ Word \in Nat \ {0}
    /\ \A u \in DOMAIN Multiplier : Multiplier[u] \in 1..(Word - 1)
    /\ MinChunk \in Nat \ {0} /\ MaxChunk \in MinChunk..(Word - 1)
    /\ DefaultChunk \in MinChunk..MaxChunk

\* lexical_cast takes a sign and any number that fits; a negative number is
\* converted modulo 2^w.
Castable(number) ==
    /\ number # NotANumber
    /\ number > -Word
    /\ number < Word

ParseDigits(number) == number % Word

\* The size of the text's unit; without a unit it is bytes.
FactorOf(text) == IF text.unit \in DOMAIN Multiplier THEN Multiplier[text.unit] ELSE 1

\* Mutant: the unit is cut off and forgotten.
ParseWithoutUnit(text) == ParseDigits(text.number)

\* Mutant: a product that does not wrap.
ParseUnwrapped(text) == FactorOf(text) * ParseDigits(text.number)

\* The product is taken modulo 2^w.
ParseChunkSize(text) == (FactorOf(text) * ParseDigits(text.number)) % Word

\* What the option is for: the number of units, in bytes.
Requested(text) == FactorOf(text) * text.number

=============================================================================
