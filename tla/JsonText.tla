------------------------------ MODULE JsonText ------------------------------
(* Host names as JSON strings: hnc_json_escape (hnc_helpers.c), which writes into a
   buffer of fixed size, and the reader in hnc_cache_load (hostname_cache.c).

   A byte is its class: "a" plain ASCII, "q" a character with a two-byte escape
   (quote, backslash, newline, return, tab), "c" another control character, "L",
   "M" and "E" the first byte of a two-, a three- and a four-byte UTF-8 character,
   "C" a continuation byte; "esc" is the backslash and "u", "0" the rest of \u00xx. *)
EXTENDS Integers, Sequences, SequencesExt

CONSTANTS
    EscLen,     \* sizeof esc_hn (128), the byte for the NUL included
    HnLen       \* sizeof hostname (64)

(* The longest escape of a byte and the NUL fit. *)
ASSUME TextBounds == EscLen \in Nat /\ EscLen > 6 /\ HnLen \in Nat \ {0}

NameBytes == {"a", "q", "c", "L", "M", "E", "C"}
TextBytes == NameBytes \cup {"esc", "u", "0"}

EscapeByte(b) ==
    CASE b = "q" -> <<"esc", "q">>
      [] b = "c" -> <<"esc", "u", "0", "0", "0", "c">>
      [] OTHER   -> <<b>>

Fits_exactly(text, piece) == Len(text) + Len(piece) <= EscLen

Fits(text, piece) == Len(text) + Len(piece) < EscLen

(* One turn of the loop, which stops for good at the first byte whose escape does not fit. *)
Put(out, b) ==
    IF ~out.full /\ Fits(out.text, EscapeByte(b))
      THEN [text |-> out.text \o EscapeByte(b), full |-> FALSE]
      ELSE [text |-> out.text, full |-> TRUE]

Turns(name) ==
    LET out[i \in 0..Len(name)] ==
            IF i = 0 THEN [text |-> <<>>, full |-> FALSE] ELSE Put(out[i - 1], name[i])
    IN  out

Fill(name) == Turns(name)[Len(name)]

Needed(b) == CASE b = "L" -> 1 [] b = "M" -> 2 [] b = "E" -> 3 [] OTHER -> 0

BackOff_not_at_all(text) == text

(* A character at the end that has fewer continuation bytes than it needs is dropped. *)
BackOff(text) ==
    LET heads == {i \in DOMAIN text : text[i] # "C"}
        k == IF heads = {} THEN 0 ELSE Max(heads)
    IN  IF k > 0 /\ Len(text) - k < Needed(text[k]) THEN SubSeq(text, 1, k - 1) ELSE text

hnc_json_escape(name) ==
    LET out == Fill(name)
    IN  IF out.full \/ Len(out.text) + 1 >= EscLen THEN BackOff(out.text) ELSE out.text

(* What hnc_cache_load reads back: q walks over the text, hn grows by a byte a turn. *)
ReadByte(text, r) ==
    IF r.q > Len(text) THEN r
    ELSE IF text[r.q] # "esc"   THEN [q |-> r.q + 1, hn |-> Append(r.hn, text[r.q])]
    ELSE IF text[r.q + 1] = "u" THEN [q |-> r.q + 6, hn |-> Append(r.hn, text[r.q + 5])]
    ELSE [q |-> r.q + 2, hn |-> Append(r.hn, text[r.q + 1])]

Reads(text) ==
    LET read[i \in 0..Len(text)] ==
            IF i = 0 THEN [q |-> 1, hn |-> <<>>] ELSE ReadByte(text, read[i - 1])
    IN  read

Unescape(text) == Reads(text)[Len(text)].hn

-----------------------------------------------------------------------------
(* Well-formed UTF-8, stated by position: who a continuation byte belongs to. *)
Whole(name) ==
    \A i \in DOMAIN name :
        /\ name[i] = "L" => i + 1 \in DOMAIN name /\ name[i + 1] = "C"
        /\ name[i] = "M" => i + 2 \in DOMAIN name /\ name[i + 1] = "C" /\ name[i + 2] = "C"
        /\ name[i] = "E" => /\ i + 3 \in DOMAIN name
                            /\ name[i + 1] = "C" /\ name[i + 2] = "C" /\ name[i + 3] = "C"
=============================================================================
