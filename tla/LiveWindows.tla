---------------------------- MODULE LiveWindows ----------------------------
(***************************************************************************)
(* What subList promises, without counters: a list has contents, a window  *)
(* is an interval of one list taken through other windows, and a window is *)
(* usable for as long as every structural change of its list was made      *)
(* through it or through a window taken from it.                           *)
(***************************************************************************)
EXTENDS Integers, Sequences

CONSTANT
    Ids       \* the names of lists and windows

VARIABLES
    content,  \* list -> its elements
    span,     \* window -> its interval and the windows it was taken through
    live      \* the windows that may be used

windowVars == <<content, span, live>>

Span == [root : Ids, offset : Nat, len : Nat, path : SUBSET Ids]

Lists == DOMAIN content
Taken == DOMAIN span

Usable(h) == h \in Lists \cup live

\* The list a handle reads, and the interval of it.
Root(h)   == IF h \in Lists THEN h ELSE span[h].root
Offset(h) == IF h \in Lists THEN 0 ELSE span[h].offset
Length(h) == IF h \in Lists THEN Len(content[h]) ELSE span[h].len
Path(h)   == IF h \in Lists THEN {} ELSE span[h].path

Init ==
    /\ content = <<>>
    /\ span = <<>>
    /\ live = {}

\* A new list: a literal, or a copy a factory makes.
Create(l, elements) ==
    /\ l \notin Lists \cup Taken
    /\ content' = [x \in Lists \cup {l} |-> IF x = l THEN elements ELSE content[x]]
    /\ UNCHANGED <<span, live>>

\* A window is taken from a usable handle and is live.
Take(w, h, from, to) ==
    /\ w \notin Lists \cup Taken
    /\ Usable(h)
    /\ 0 <= from /\ from <= to /\ to <= Length(h)
    /\ span' = [x \in Taken \cup {w} |->
                  IF x = w THEN [root |-> Root(h), offset |-> Offset(h) + from,
                                 len |-> to - from, path |-> Path(h) \cup {w}]
                           ELSE span[x]]
    /\ live' = live \cup {w}
    /\ UNCHANGED content

\* The interval of a handle gets new elements. A structural write ends the
\* other windows of the list and resizes those the write went through.
Write(h, elements, structural) ==
    /\ Usable(h)
    /\ Len(elements) # Length(h) => structural
    /\ content' = [content EXCEPT ![Root(h)] =
                     SubSeq(@, 1, Offset(h)) \o elements
                       \o SubSeq(@, Offset(h) + Length(h) + 1, Len(@))]
    /\ IF structural
       THEN /\ live' = {w \in live : span[w].root = Root(h) => w \in Path(h)}
            /\ span' = [w \in Taken |->
                          IF w \in Path(h)
                          THEN [span[w] EXCEPT !.len = @ + Len(elements) - Length(h)]
                          ELSE span[w]]
       ELSE UNCHANGED <<span, live>>

\* A step is recognised by what it leaves: a new list, a new window of a
\* usable handle, or other elements in the interval of one.
Next ==
    \/ \E l \in DOMAIN content' \ Lists : Create(l, content'[l])
    \/ \E w \in DOMAIN span' \ Taken, h \in Lists \cup live :
          LET from == span'[w].offset - Offset(h)
          IN  Take(w, h, from, from + span'[w].len)
    \/ \E h \in Lists \cup live, structural \in BOOLEAN :
          LET grown == Len(content'[Root(h)]) - Len(content[Root(h)])
          IN  /\ Length(h) + grown >= 0
              /\ Write(h, SubSeq(content'[Root(h)], Offset(h) + 1,
                                 Offset(h) + Length(h) + grown), structural)

Spec == Init /\ [][Next]_windowVars
=============================================================================
