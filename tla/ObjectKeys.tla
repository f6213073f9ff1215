----------------------------- MODULE ObjectKeys -----------------------------
(***************************************************************************)
(* From the path of a URL to a path under a bucket's storage: the decoding *)
(* of percent escapes, safe_join and parse_copy_source of                  *)
(* src/handlers/object.rs.                                                 *)
(*                                                                         *)
(* A text is a sequence of characters.  An escape is a "%" and one code,   *)
(* which stands for the two hexadecimal digits of a byte.                  *)
(***************************************************************************)
EXTENDS Integers, Sequences, SequencesExt

CONSTANT Bad    \* text that is not UTF-8; a key that has no path

\* The codes: of "%", "/", "." and "a", and of a byte that is never UTF-8.
Byte == [p |-> "%", s |-> "/", d |-> ".", a |-> "a", x |-> "broken"]

\* One more character of a text with escapes: what it says so far, and whether a "%"
\* waits for its code.  A "%" that no code follows is kept.
Unescape(acc, c) ==
    CASE acc.escape /\ c \in DOMAIN Byte -> [out |-> Append(acc.out, Byte[c]), escape |-> FALSE]
      [] c = "%" -> [out |-> IF acc.escape THEN Append(acc.out, "%") ELSE acc.out, escape |-> TRUE]
      [] OTHER -> [out |-> acc.out \o (IF acc.escape THEN <<"%", c>> ELSE <<c>>), escape |-> FALSE]

Unescaped(text) ==
    LET read[i \in 0..Len(text)] ==
            IF i = 0 THEN [out |-> <<>>, escape |-> FALSE] ELSE Unescape(read[i - 1], text[i])
        end == read[Len(text)]
    IN  IF end.escape THEN Append(end.out, "%") ELSE end.out

\* urlencoding::decode and axum's Path.
Decode(text) ==
    LET out == Unescaped(text)
    IN  IF \E i \in DOMAIN out : out[i] = "broken" THEN Bad ELSE out

\* The names of a path so far, when the one in hand is at its end: an empty one and "."
\* say nothing.
Named(path) ==
    IF path.name \in {<<>>, <<".">>} THEN path.names ELSE Append(path.names, path.name)

\* One more character of a path.
Step(path, c) ==
    IF c = "/" THEN [names |-> Named(path), name |-> <<>>]
    ELSE [names |-> path.names, name |-> Append(path.name, c)]

\* Path::components.
Components(text) ==
    LET read[i \in 0..Len(text)] ==
            IF i = 0 THEN [names |-> <<>>, name |-> <<>>] ELSE Step(read[i - 1], text[i])
    IN  Named(read[Len(text)])

\* Mutant: a parent directory is a name like any other.
AnyComponents(key) == Components(key)

SafeJoin(key) ==
    IF \E i \in DOMAIN Components(key) : Components(key)[i] = <<".", ".">>
    THEN Bad ELSE Components(key)

\* The key a handler works with: axum's Path decodes the path of the URL, and
\* the handler decodes the result once more.
HandlerKey(raw) == IF Decode(raw) = Bad THEN Bad ELSE Decode(Decode(raw))

\* The bucket and the key of a text "/bucket/key".
SplitSource(text) ==
    LET from == SelectInSeq(text, LAMBDA c : c # "/")
        rest == IF from = 0 THEN <<>> ELSE SubSeq(text, from, Len(text))
        slash == SelectInSeq(rest, LAMBDA c : c = "/")
    IN  IF slash = 0 THEN Bad
        ELSE [bucket |-> SubSeq(rest, 1, slash - 1), key |-> SubSeq(rest, slash + 1, Len(rest))]

\* Mutant: the source is taken as it stands.
SourceUndecoded(source) == SplitSource(source)

\* parse_copy_source: the source of a copy, decoded once.
CopySource(source) == IF Decode(source) = Bad THEN Bad ELSE SplitSource(Decode(source))

-----------------------------------------------------------------------------
(* What a client of S3 means.                                              *)

\* The key a URL names: its path, decoded once.
Meant(raw) == Decode(raw)

\* What names this key of this bucket as the source of a copy, before it is escaped.
SourcesOf(bucket, key) ==
    {bucket \o <<"/">> \o key, <<"/">> \o bucket \o <<"/">> \o key}

\* Keys that decoding again leaves alone.
Plain(key) == \A i \in DOMAIN key : key[i] # "%"
=============================================================================
