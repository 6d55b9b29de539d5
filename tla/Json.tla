-------------------------------- MODULE Json --------------------------------
(***************************************************************************)
(* The json documents of gaenari (gaenari/common/json.hpp), of the kind    *)
(* that keeps the order of names (insert_order_map.hpp) and that supul     *)
(* uses for attributes, report options and reports: parsing (a tree, or a  *)
(* callback for every value), writing, finding and setting by path.        *)
(*                                                                         *)
(* A document is the sequence of its leaves in the order of `traverse':    *)
(* a leaf is a scalar or an empty block, with the path to it.  A text is a *)
(* sequence of tokens; white space and escapes are inside a token.         *)
(***************************************************************************)
EXTENDS Integers, Sequences, FiniteSets, SequencesExt

CONSTANTS
    Names,      \* strings: names of members, and values
    Numbers,    \* numbers, true, false and null
    Tiny,       \* numbers that print as Zero: to_string keeps six decimals
    Zero,
    Paths,      \* paths that are passed to set_value
    Values,     \* values that are passed to set_value, empty blocks included
    Inputs,     \* tokens of the texts that are parsed
    MaxTokens,  \* bound: tokens of a text
    MaxLeaves   \* bound: leaves of a document that is edited

Scalars == Names \cup Numbers
Empties == {"{}", "[]"}
Tokens == Scalars \cup {"{", "}", "[", "]", ",", ":"}

ASSUME ScalarAssumption ==
    /\ Names \cap Numbers = {} /\ Tiny \subseteq Numbers /\ Zero \in Numbers \ Tiny
    /\ (Names \cup Numbers) \cap {"", "{", "}", "[", "]", ",", ":", "{}", "[]"} = {}
    /\ {"null", "false"} \subseteq Numbers
ASSUME BoundAssumption == MaxTokens \in Nat /\ MaxLeaves \in Nat
ASSUME InputAssumption == Inputs \subseteq Tokens /\ Values \subseteq Scalars \cup Empties

VARIABLES
    doc,   \* the block of a json object
    text,  \* the tokens a parser was given
    dom,   \* the parser that builds a tree
    sax    \* the same parser with a callback for values

vars == <<doc, text, dom, sax>>

Name(a) == <<"name", a>>
At(n) == <<"at", n>>
Appended == <<"append">>   \* path_option::array_append, in a path for set_value
PathStep == ({"name"} \X (Names \cup {""})) \cup ({"at"} \X Nat)
Leaf == [path : Seq(PathStep), value : Scalars \cup Empties]
Doc == [array : BOOLEAN, leaves : Seq(Leaf)]
EmptyDoc == [array |-> FALSE, leaves |-> <<>>]

-----------------------------------------------------------------------------
(* Trees as leaves                                                           *)

Holds(leaves, p) == \E i \in DOMAIN leaves : IsPrefix(p, leaves[i].path)
IsLeaf(leaves, p) == \E i \in DOMAIN leaves : leaves[i].path = p
ValueAt(leaves, p) == leaves[CHOOSE i \in DOMAIN leaves : leaves[i].path = p].value

\* object, array, scalar or, where there is nothing, none.
KindAt(d, p) ==
    CASE p = <<>> -> IF d.array THEN "array" ELSE "object"
      [] IsLeaf(d.leaves, p) ->
           CASE ValueAt(d.leaves, p) = "{}" -> "object"
             [] ValueAt(d.leaves, p) = "[]" -> "array"
             [] OTHER -> "scalar"
      [] ~Holds(d.leaves, p) -> "none"
      [] OTHER -> LET l == SelectSeq(d.leaves, LAMBDA x : IsPrefix(p, x.path))[1]
                  IN  IF l.path[Len(p) + 1][1] = "at" THEN "array" ELSE "object"

\* The steps from p to its members, in order.
Members(d, p) ==
    LET below == {d.leaves[i].path : i \in {j \in DOMAIN d.leaves :
                    IsStrictPrefix(p, d.leaves[j].path)}}
        first(s) == CHOOSE i \in DOMAIN d.leaves :
                      /\ IsPrefix(Append(p, s), d.leaves[i].path)
                      /\ \A j \in 1..(i - 1) : ~IsPrefix(Append(p, s), d.leaves[j].path)
    IN  SetToSortSeq({q[Len(p) + 1] : q \in below}, LAMBDA s, t : first(s) < first(t))
Size(d, p) == Len(Members(d, p))

\* insert_order_map::insert and operator[]: a new name comes last, one that is there
\* keeps its place; and emplace_back.  `sub' are the leaves below the new member.
PutMember(leaves, step, sub) ==
    LET new == [i \in DOMAIN sub |-> [sub[i] EXCEPT !.path = <<step>> \o @]]
        old == {i \in DOMAIN leaves : leaves[i].path[1] = step}
    IN  IF old = {} THEN leaves \o new
        ELSE SubSeq(leaves, 1, Min(old) - 1) \o new
               \o SubSeq(leaves, Max(old) + 1, Len(leaves))

-----------------------------------------------------------------------------
(* Parsing                                                                   *)

\* An open block of the tree being built.
Open(array, name) == [array |-> array, name |-> name, leaves |-> <<>>]
Fresh == [s |-> "object", name |-> "", stack |-> <<>>, path |-> <<>>, count |-> <<>>,
          calls |-> <<>>]
Failed(p) == p.s = "failed"
Done(p) == p.s = "done"
Fail(p) == [p EXCEPT !.s = "failed"]

\* Is the innermost block an array, and was anything counted in it?
InArray(p) == p.stack # <<>> /\ Last(p.stack).array
\* Mutant: a comma may end a block.
DomEmptyMutant(p) == TRUE
DomEmpty(p) == Last(p.stack).leaves = <<>>
SaxInArray(p) == p.path # <<>> /\ Last(p.path)[1] = "at"
SaxEmpty(p) == Last(p.count) = 0

\* A finished value (its leaves) becomes a member of the innermost block.
Put(stack, name, sub) ==
    LET top  == Last(stack)
        step == IF top.array THEN At(Size([array |-> TRUE, leaves |-> top.leaves], <<>>))
                ELSE Name(name)
    IN  Append(Front(stack), [top EXCEPT !.leaves = PutMember(@, step, sub)])
One(v) == <<[path |-> <<>>, value |-> v]>>

DomValue(p, v) == [p EXCEPT !.stack = Put(@, p.name, One(v)), !.s = "value_post"]
DomOpen(p, array) ==
    [p EXCEPT !.stack = Append(@, Open(array, p.name)),
              !.s = IF array THEN "value_pre" ELSE "obj_pre"]
\* The last bracket ends the text without being compared with the first.
DomClose(p, array) ==
    LET top == Last(p.stack)
        sub == IF top.leaves = <<>> THEN One(IF array THEN "[]" ELSE "{}") ELSE top.leaves
    IN  IF p.stack = <<>> THEN Fail(p)
        ELSE IF Len(p.stack) = 1 THEN [p EXCEPT !.s = "done"]
        ELSE IF top.array # array THEN Fail(p)
        ELSE [p EXCEPT !.stack = Put(Front(@), top.name, sub), !.s = "value_post"]

\* The last step of a path is the block it is in, set at every member.
Here(p) == IF SaxInArray(p) THEN At(Last(p.count)) ELSE Name(p.name)
Call(p, v) == [p EXCEPT !.calls = Append(@, [path |-> p.path, value |-> v])]
Counted(count) == Append(Front(count), Last(count) + 1)

\* Mutant: the step of the member before stays in the path.
SaxValueMutant(p, v) ==
    LET q == [p EXCEPT !.path = Append(@, Here(p)), !.s = "value_post"]
    IN  [Call(q, v) EXCEPT !.count = Counted(@)]
SaxValue(p, v) ==
    LET q == [p EXCEPT !.path = Append(Front(@), Here(p)), !.s = "value_post"]
    IN  [Call(q, v) EXCEPT !.count = Counted(@)]
\* Mutant: an array is never counted.
SaxCountsMutant(p, array) == FALSE
\* An object that is a member of an object is not counted.
SaxCounts(p, array) == array \/ SaxInArray(p)
SaxOpen(p, array) ==
    [p EXCEPT
       !.path = Append(IF @ = <<>> THEN @ ELSE Append(Front(@), Here(p)),
                       IF array THEN At(0) ELSE Name("")),
       !.count = Append(IF @ = <<>> \/ ~SaxCounts(p, array) THEN @ ELSE Counted(@), 0),
       !.s = IF array THEN "value_pre" ELSE "obj_pre"]
SaxClose(p, array) ==
    LET q == IF SaxEmpty(p) THEN Call(p, IF array THEN "[]" ELSE "{}") ELSE p
    IN  IF p.path = <<>> THEN Fail(p)
        ELSE IF Len(p.path) = 1 THEN [p EXCEPT !.s = "done"]
        ELSE IF SaxInArray(p) # array THEN Fail(p)
        ELSE [q EXCEPT !.path = Front(@), !.count = Front(@), !.s = "value_post"]

\* One token.  The operators are those of the tree or those of the callbacks.
Parsed(p, t, Empty(_), Array(_), Value(_, _), OpenBlock(_, _), CloseBlock(_, _)) ==
    CASE p.s = "object" /\ t \in {"{", "["} -> OpenBlock(p, t = "[")
      [] p.s = "object" /\ t \in {"}", "]"} -> CloseBlock(p, t = "]")
      [] p.s = "obj_pre" /\ t \in Names -> [p EXCEPT !.name = t, !.s = "obj_post"]
      [] p.s = "obj_pre" /\ t = "}" /\ Empty(p) -> CloseBlock(p, FALSE)
      [] p.s = "obj_post" /\ t = ":" -> [p EXCEPT !.s = "value_pre"]
      [] p.s = "value_pre" /\ t \in Scalars -> Value(p, t)
      [] p.s = "value_pre" /\ t \in {"{", "["} -> OpenBlock(p, t = "[")
      [] p.s = "value_pre" /\ t = "]" /\ Array(p) /\ Empty(p) -> CloseBlock(p, TRUE)
      [] p.s = "value_post" /\ t = "," ->
           [p EXCEPT !.s = IF Array(p) THEN "value_pre" ELSE "obj_pre"]
      [] p.s = "value_post" /\ t \in {"}", "]"} -> CloseBlock(p, t = "]")
      [] p.s = "done" -> p
      [] OTHER -> Fail(p)

ParsedDom(p, t) == Parsed(p, t, DomEmpty, InArray, DomValue, DomOpen, DomClose)
ParsedSax(p, t) == Parsed(p, t, SaxEmpty, SaxInArray, SaxValue, SaxOpen, SaxClose)

Result(p) == [array |-> p.stack[1].array, leaves |-> p.stack[1].leaves]

-----------------------------------------------------------------------------
(* Writing                                                                   *)

\* check_block_change: how many steps two paths have in common.
Same(p, q) == Cardinality({n \in DOMAIN p : n \in DOMAIN q /\ SubSeq(p, 1, n) = SubSeq(q, 1, n)})

\* Mutant: the comma behind the last member stays.
TrimMutant(out) == out
Trim(out) == IF Last(out) = "," THEN Front(out) ELSE out

\* What is written so far, and the open blocks (is it an array?).
Close(w, n) == [out |-> Append(Trim(w.out), IF Last(w.open) THEN "]" ELSE "}"),
                open |-> Front(w.open)]
CloseWithComma(w, n) == [Close(w, n) EXCEPT !.out = Append(@, ",")]
Label(step) == IF step[1] = "name" THEN <<step[2], ":">> ELSE <<>>
Begin(array) == IF array THEN "[" ELSE "{"

\* to_string prints a number with six decimals.
Printed(v) ==
    CASE v = "{}" -> <<"{", "}">>
      [] v = "[]" -> <<"[", "]">>
      [] OTHER -> IF v \in Tiny THEN <<Zero>> ELSE <<v>>

\* One leaf: the blocks of the last one that it is not in are closed, its own are
\* opened, array or object by the step that follows.
Written(w, leaf) ==
    LET p      == leaf.path
        same   == Same(w.last, p)
        closed == FoldLeft(CloseWithComma, w,
                           [n \in 1..(IF w.last = <<>> THEN 0 ELSE Len(w.last) - 1 - same) |-> n])
        isArray(n) == p[n + 1][1] = "at"
        opened == FoldLeft(LAMBDA acc, n :
                             [out |-> acc.out \o Label(p[n]) \o <<Begin(isArray(n))>>,
                              open |-> Append(acc.open, isArray(n))],
                           [out |-> closed.out, open |-> closed.open],
                           [n \in 1..(Len(p) - 1 - same) |-> same + n])
    IN  [out |-> opened.out \o Label(Last(p)) \o Printed(leaf.value) \o <<",">>,
         open |-> opened.open, last |-> p]

\* static_to_string.  (An empty document throws.)
Text(d) ==
    LET root == [out |-> <<Begin(d.array)>>, open |-> <<d.array>>, last |-> <<>>]
        all  == FoldLeft(Written, root, d.leaves)
    IN  FoldLeft(Close, all, [n \in DOMAIN all.open |-> n]).out

-----------------------------------------------------------------------------
(* Finding and setting                                                       *)

\* static_find_block: where the block with a path begins; 0 if nowhere.
BlockAt(tokens, p) ==
    LET visit(acc, n) ==
          LET q == ParsedSax(acc.parser, tokens[n])
          IN  [parser |-> q,
               at |-> IF acc.at = 0 /\ tokens[n] \in {"{", "["} /\ Front(q.path) = p
                      THEN n ELSE acc.at]
    IN  FoldLeft(visit, [parser |-> Fresh, at |-> 0], [n \in DOMAIN tokens |-> n]).at

\* static_find_value: the first value at the path, below the block that has it, or
\* none.  Where that block is missing `return false' gives the value false (the empty
\* optional was meant).
FoundInText(tokens, p) ==
    LET from == IF Len(p) = 1 THEN 1 ELSE BlockAt(tokens, Front(p))
        q    == FoldLeft(ParsedSax, Fresh, SubSeq(tokens, from, Len(tokens)))
        hits == SelectSeq(q.calls, LAMBDA c : c.path = <<Last(p)>>)
    IN  IF from = 0 THEN "false" ELSE IF hits = <<>> THEN "none" ELSE hits[1].value

StepIn(kind, step) == kind = IF step[1] = "name" THEN "object" ELSE "array"

\* find_main: the value of a scalar, the kind of a block, or the first reason not to
\* find it; get_value answers with the default on a name that is missing only.
Find(d, p) ==
    LET at(n) == KindAt(d, SubSeq(p, 1, n))
        stops == {n \in DOMAIN p : ~StepIn(at(n - 1), p[n]) \/ at(n) = "none"}
        n     == Min(stops)
    IN  CASE stops = {} -> IF at(Len(p)) = "scalar" THEN ValueAt(d.leaves, p) ELSE at(Len(p))
          [] at(n - 1) = "scalar" -> "its_not_array"
          [] ~StepIn(at(n - 1), p[n]) -> "internal_error"
          [] p[n][1] = "name" -> "object_name_not_found"
          [] OTHER -> "index_overflow"

\* Mutant: a new member comes last, whatever its block.
InsertLastMutant(leaves, p, v) == Append(leaves, [path |-> p, value |-> v])
\* Mutant: it takes the place of the last member.
InsertOverMutant(leaves, p, v) ==
    LET under == {i \in DOMAIN leaves : IsPrefix(Front(p), leaves[i].path)}
    IN  IF under = {} THEN <<[path |-> p, value |-> v]>>
        ELSE [leaves EXCEPT ![Max(under)] = [path |-> p, value |-> v]]
\* A new member comes after those of its block; an empty block is none any more.
Insert(leaves, p, v) ==
    LET under == {i \in DOMAIN leaves : IsPrefix(Front(p), leaves[i].path)}
        leaf  == [path |-> p, value |-> v]
    IN  CASE under = {} -> Append(leaves, leaf)
          [] IsLeaf(leaves, Front(p)) -> [leaves EXCEPT ![Min(under)] = leaf]
          [] OTHER -> InsertAt(leaves, Max(under) + 1, leaf)

\* One step of find_value_for_set_value_main.  A member that is not there is made,
\* null at first, and then the block that the next step asks for; an index cannot
\* be asked for, and the null stays.
Walk(acc, step, next) ==
    LET kind  == KindAt(acc.doc, acc.at)
        into  == IF ~StepIn(kind, step) THEN <<>>
                 ELSE Append(acc.at, IF step = Appended THEN At(Size(acc.doc, acc.at)) ELSE step)
        there == Holds(acc.doc.leaves, into)
        block == CASE next = <<>> -> "null"
                   [] next[1] = "name" -> "{}"
                   [] next = Appended -> "[]"
                   [] OTHER -> "null"
        made  == IF there THEN acc.doc
                 ELSE [acc.doc EXCEPT !.leaves = Insert(@, into, block)]
        ends  == KindAt(made, into) = "scalar"
    IN  CASE acc.end # "walk" -> acc
          [] into = <<>> \/ (step[1] = "at" /\ ~there) -> [acc EXCEPT !.end = "failed"]
          [] OTHER -> [doc |-> made, at |-> into,
                       end |-> IF ends /\ next = <<>> THEN "value"
                               ELSE IF ends \/ next = <<>> THEN "failed" ELSE "walk"]

\* An empty document becomes an array or an object by the first step.
Rooted(d, p) == IF d.leaves = <<>> THEN [d EXCEPT !.array = p[1][1] # "name"] ELSE d
SetTo(d, p, v) ==
    LET step(acc, n) == Walk(acc, p[n], IF n = Len(p) THEN <<>> ELSE p[n + 1])
        r == FoldLeft(step, [doc |-> Rooted(d, p), at |-> <<>>, end |-> "walk"],
                      [n \in DOMAIN p |-> n])
        set(l) == IF l.path = r.at THEN [l EXCEPT !.value = v] ELSE l
    IN  IF r.end = "value"
        THEN [r.doc EXCEPT !.leaves = [i \in DOMAIN @ |-> set(@[i])]]
        ELSE r.doc

-----------------------------------------------------------------------------
(* The program                                                               *)

Init == doc = EmptyDoc /\ text = <<>> /\ dom = Fresh /\ sax = Fresh

\* Both parsers take the next token.  (A bound: documents are parsed before others
\* are edited.)
Feed(t) ==
    /\ doc = EmptyDoc /\ Len(text) < MaxTokens /\ ~Failed(dom) /\ ~Done(dom)
    /\ text' = Append(text, t)
    /\ dom' = ParsedDom(dom, t) /\ sax' = ParsedSax(sax, t)
    /\ UNCHANGED doc

\* parse: the tree replaces the document; a text that ends early or is no document
\* throws and leaves it as it was.
Parse ==
    /\ text # <<>>
    /\ doc' = IF Done(dom) THEN Result(dom) ELSE doc
    /\ text' = <<>> /\ dom' = Fresh /\ sax' = Fresh

\* set_value, set_value_move, set_value_empty_object, set_value_empty_array.
SetValue(p, v) ==
    /\ text = <<>> /\ Len(doc.leaves) < MaxLeaves
    /\ doc' = SetTo(doc, p, v)
    /\ UNCHANGED <<text, dom, sax>>

Clear ==
    /\ text = <<>> /\ doc' = EmptyDoc
    /\ UNCHANGED <<text, dom, sax>>

Next ==
    \/ \E t \in Inputs : Feed(t)
    \/ Parse \/ Clear
    \/ \E p \in Paths, v \in Values : SetValue(p, v)

Spec == Init /\ [][Next]_vars

-----------------------------------------------------------------------------
(* Properties                                                                *)

Parser(p) ==
    /\ p.s \in {"object", "obj_pre", "obj_post", "value_pre", "value_post", "done", "failed"}
    /\ p.stack \in Seq([array : BOOLEAN, name : Names \cup {""}, leaves : Seq(Leaf)])
    /\ p.path \in Seq(PathStep) /\ p.count \in Seq(Nat) /\ Len(p.path) = Len(p.count)
    /\ p.calls \in Seq(Leaf)
\* The type of every variable.
TypeOK == doc \in Doc /\ text \in Seq(Inputs) /\ Parser(dom) /\ Parser(sax)

\* The leaves are those of a tree, whatever was parsed and set: no path goes through
\* another leaf, the leaves of a block stand together, all steps into a block are of
\* its kind, and the members of an array are numbered from 0 in order.
IsTree ==
    LET paths == [i \in DOMAIN doc.leaves |-> doc.leaves[i].path]
    IN  \A i \in DOMAIN paths : \A n \in 0..(Len(paths[i]) - 1) :
          LET p     == SubSeq(paths[i], 1, n)
              below == {j \in DOMAIN paths : IsPrefix(p, paths[j])}
              step  == [j \in below |-> paths[j][n + 1]]
              array == KindAt(doc, p) = "array"
          IN  /\ ~IsLeaf(doc.leaves, p)
              /\ below = Min(below)..Max(below)
              /\ \A j \in below : step[j][1] = IF array THEN "at" ELSE "name"
              /\ \A j \in below \ {Min(below)} :
                   array => step[j][2] - step[j - 1][2] \in {0, 1}
              /\ array => step[Min(below)] = At(0)

\* What to_string writes is parsed to the same document, numbers rounded: all blocks
\* are closed by their own bracket and no comma is left over.
Rounded(l) == IF l.value \in Tiny THEN [l EXCEPT !.value = Zero] ELSE l
RoundTrip ==
    doc.leaves # <<>> =>
      LET p == FoldLeft(ParsedDom, Fresh, Text(doc))
      IN  Done(p) /\ Result(p) = [doc EXCEPT !.leaves = [i \in DOMAIN @ |-> Rounded(@[i])]]

\* No member is named twice in a block ("do not support duplicated keys").
Depth(n) == Cardinality({i \in 1..n : text[i] \in {"{", "["}})
              - Cardinality({i \in 1..(n - 1) : text[i] \in {"}", "]"}})
NamesOnce ==
    \A i, j \in 1..(Len(text) - 1) :
      (i < j /\ text[i] = text[j] /\ text[i + 1] = ":" /\ text[j + 1] = ":") =>
        \E k \in i..j : Depth(k) < Depth(i) \/ Depth(i) # Depth(j)

\* The parser takes nothing but documents: a text that it accepts is, up to the last
\* bracket, what to_string writes for the result (so no comma before a bracket, no
\* block closed by the other kind, no member lost).
AcceptsDocuments ==
    (Done(dom) /\ NamesOnce /\ Result(dom).leaves # <<>>) =>
      Front(text) = Front(Text(Result(dom)))

\* The callbacks get every leaf of the tree that the other parser builds once, with
\* its path and in order (an empty block with one more step).  The callback for an
\* object all of whose members are objects, which is not empty, has a name there.
Ghost(c) == c.value = "{}" /\ Last(c.path) # Name("")
Delivered(c) == IF c.value \in Empties THEN [c EXCEPT !.path = Front(@)] ELSE c
SaxDelivers ==
    (Done(dom) /\ NamesOnce) =>
      LET calls == SelectSeq(sax.calls, LAMBDA c : ~Ghost(c))
      IN  /\ Done(sax)
          /\ [i \in DOMAIN calls |-> Delivered(calls[i])] = Result(dom).leaves


\* set_value changes one value: at most one leaf goes (the value before, or the empty
\* block that gets its first member), at most one comes, all others stay in order,
\* also when it is refused on the way.
SetIsLocal ==
    [][(UNCHANGED text /\ doc'.leaves # <<>>) =>
         LET kept == SelectSeq(doc.leaves, LAMBDA l : l \in ToSet(doc'.leaves))
             gone == ToSet(doc.leaves) \ ToSet(kept)
             came == ToSet(doc'.leaves) \ ToSet(kept)
         IN  /\ SelectSeq(doc'.leaves, LAMBDA l : l \in ToSet(doc.leaves)) = kept
             /\ Cardinality(gone) <= Cardinality(came) /\ Cardinality(came) <= 1
             /\ \A g \in gone, c \in came :
                  IF g.value \in Empties THEN IsStrictPrefix(g.path, c.path)
                  ELSE g.path = c.path]_vars

=============================================================================
