----------------------------- MODULE ProseExtractor -----------------------------
(* The prose of a response document, taken out of it one character at a time while
   it streams: ProseExtractor of dagos-openai/src/prose.rs, and NativeProse of
   native.rs, which lets a plain note through until a line begins a document.

   A character is a string; the four digits of a unicode escape are one: "hi" and
   "lo" are the halves of a surrogate pair, which decodes to "pair".             *)
EXTENDS Naturals, Sequences

Blank == {" ", "\n"}

Object == [object |-> TRUE, key |-> <<>>, expecting |-> TRUE]
Array  == [object |-> FALSE, key |-> <<>>, expecting |-> FALSE]

(* out is all the prose so far; string is what the open string is, if any. *)
Fresh == [started |-> FALSE, mid |-> FALSE, done |-> FALSE, stack |-> <<>>, string |-> "none",
          escape |-> "none", key |-> <<>>, high |-> FALSE, out |-> <<>>]

Top(x) == x.stack[Len(x.stack)]

(* Mutant of AtProse: any key named prose. *)
AtProseAnywhere(x) == x.stack # <<>> /\ Top(x).key = <<"prose">> /\ ~Top(x).expecting

(* The next string is presentation.prose of the root object. *)
AtProse(x) ==
    /\ Len(x.stack) = 2 /\ x.stack[1].key = <<"presentation">>
    /\ x.stack[2].key = <<"prose">> /\ ~x.stack[2].expecting

(* Before the document, which starts at a brace that begins a line. *)
Preamble(x, c) ==
    IF c = "{" /\ ~x.mid THEN [x EXCEPT !.started = TRUE, !.stack = <<Object>>]
    ELSE [x EXCEPT !.mid = c # "\n" /\ (@ \/ c \notin Blank)]

Structure(x, c) ==
    LET top  == Len(x.stack)
        rest == SubSeq(x.stack, 1, top - 1)
    IN CASE c = "\"" -> [x EXCEPT !.string = IF Top(x).expecting THEN "key"
                                             ELSE IF AtProse(x) THEN "prose" ELSE "other",
                                  !.key = <<>>, !.escape = "none"]
         [] c = "{"  -> [x EXCEPT !.stack = Append(@, Object)]
         [] c = "["  -> [x EXCEPT !.stack = Append(@, Array)]
         [] c \in {"}", "]"} -> [x EXCEPT !.stack = rest, !.done = rest = <<>>]
         [] c = "," /\ Top(x).object -> [x EXCEPT !.stack[top] = Object]
         [] OTHER -> x

Decoded(x, c) == CASE x.string = "key"   -> [x EXCEPT !.key = Append(@, c)]
                   [] x.string = "prose" -> [x EXCEPT !.out = Append(@, c)]
                   [] OTHER -> x

Unicode(x, unit) == CASE unit = "hi" -> [x EXCEPT !.high = TRUE]
                      [] unit = "lo" -> IF x.high THEN Decoded([x EXCEPT !.high = FALSE], "pair")
                                        ELSE x
                      [] OTHER -> Decoded([x EXCEPT !.high = FALSE], unit)

EndString(x) ==
    LET top == Len(x.stack)
    IN IF x.string = "key"
       THEN [x EXCEPT !.string = "none", !.stack[top].key = x.key, !.stack[top].expecting = FALSE]
       ELSE [x EXCEPT !.string = "none"]

InString(x, c) ==
    LET plain == [x EXCEPT !.escape = "none"]
    IN CASE x.escape = "slash" /\ c = "u" -> [x EXCEPT !.escape = "unicode"]
         [] x.escape = "slash"   -> Decoded(plain, IF c = "n" THEN "\n" ELSE c)
         [] x.escape = "unicode" -> Unicode(plain, c)
         [] c = "\\" -> [x EXCEPT !.escape = "slash"]
         [] c = "\"" -> EndString(x)
         [] OTHER    -> Decoded(x, c)

Extract(x, c) == IF x.string # "none" THEN InString(x, c)
                 ELSE IF x.done THEN x
                 ELSE IF ~x.started THEN Preamble(x, c) ELSE Structure(x, c)

--------------------------------------------------------------------------------
(* What streams: a document, or with native tools a note until a line begins a
   document.                                                                     *)
Reader(native) == [note |-> native, decided |-> FALSE, line |-> FALSE, x |-> Fresh]

Read(n, c) ==
    CASE ~n.note -> [n EXCEPT !.x = Extract(@, c)]
      [] c = "{" /\ n.note /\ (~n.decided \/ n.line) ->
             [n EXCEPT !.note = FALSE, !.x = Extract(@, c)]
      [] OTHER -> [n EXCEPT !.decided = @ \/ c \notin Blank,
                            !.line = c = "\n" \/ (@ /\ c \in Blank),
                            !.x.out = IF n.decided \/ c \notin Blank THEN Append(@, c) ELSE @]
================================================================================
