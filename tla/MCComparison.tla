---------------------------- MODULE MCComparison ----------------------------
(* Instances of Comparison for TLC.                                        *)
EXTENDS Comparison, TLC

\* a, b and c are text, ab and ax an edited a, bc a line that holds b; h1, h2 and h3
\* a page header with its number; s is too short to be compared.
SomeLines == {"a", "ab", "ax", "b", "bc", "c", "h1", "h2", "h3"}

SomeMasks == [l \in SomeLines |-> IF l \in {"h1", "h2", "h3"} THEN "h#" ELSE l]

SomeWords == [l \in SomeLines |->
    CASE l = "a"  -> {"x", "y"}
      [] l = "ab" -> {"x", "y", "z"}
      [] l = "ax" -> {"x", "y"}
      [] l = "b"  -> {"z"}
      [] l = "bc" -> {"z", "w"}
      [] l = "c"  -> {"w", "v"}
      [] OTHER    -> {}]

SomeWithin == { <<"b", "bc">>, <<"a", "ab">> }

\* One chunk, two, or two that overlap.
Split(text, cut, overlap) ==
    << SubSeq(text, 1, cut), SubSeq(text, cut + 1 - overlap, Len(text)) >>

Splits(text) ==
    {<<text>>} \cup {Split(text, c, 2) : c \in 2..Len(text) - 1}
               \cup {Split(text, c, 0) : c \in {1, Len(text) \div 2}}

Texts == { <<"a", "b", "c">>,
           <<"s", "a", "b", "c", "s">>,
           <<"h1", "a", "h2", "b">>,
           <<"s", "h1", "a", "b", "h2", "s">> }

Twin == <<"a", "c", "ab">>

\* A text with one line replaced, removed or inserted.
Edits(text) ==
    {[text EXCEPT ![i] = l] : i \in DOMAIN text, l \in SomeLines}
    \cup {RemoveAt(text, i) : i \in DOMAIN text}
    \cup {InsertAt(text, i, l) : i \in DOMAIN text, l \in SomeLines}

\* Two versions, and sets of one and of three documents.  The last text has two
\* lines of the same words, and two edits of it.
SomeStores ==
    UNION {{<<o, n>> : o \in Splits(t), n \in UNION {Splits(e) : e \in Edits(t)}} : t \in Texts}
    \cup {<< <<Twin>>, <<n>> >> : n \in UNION {Edits(e) : e \in Edits(Twin)}}
    \cup {<<o>> : o \in UNION {Splits(t) : t \in Texts}}
    \cup {<<o, o, n>> : o \in Splits(<<"a", "b", "c">>), n \in Splits(<<"s", "a", "b", "c", "s">>)}

\* A document goes, or is another text.
SomeUpdates == { <<>>, << <<"bc", "ab">> >> }
=============================================================================
