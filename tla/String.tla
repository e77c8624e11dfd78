------------------------------- MODULE String -------------------------------
(***************************************************************************)
(* SharedMemoryString: characters in one block, with room for CharT(0)     *)
(* behind the last one.  A string that was moved from has no block.        *)
(* Characters need no constructor, so that the only failure is memory that *)
(* is refused.                                                             *)
(***************************************************************************)
EXTENDS Storage

CONSTANTS
  Strings,
  Texts    (* bound: the arguments of assign and append                    *)

ASSUME StringAssumption == Texts \subseteq Seq(Values)

VARIABLE str  (* start, finish and end_of_storage of every string          *)

StrSize(s) == SizeOf(str[s])
Text(s) == Read(mem, str[s].start, StrSize(s))

StrNow == [mem |-> mem, str |-> str]
StrBecomes(t) == mem' = t.mem /\ str' = t.str

(* Traits::copy, and CharT(0) behind the last character.                   *)
Written(m, i, text) ==
  [m EXCEPT !.cell = [c \in 1 .. Size |->
     IF c \in Span(i, Len(text)) THEN text[c - i + 1]
     ELSE IF c = i + Len(text) THEN Zero ELSE m.cell[c]]]

(* What was in a block does not matter once it was given back.             *)
Forgotten(m, i, n) ==
  [m EXCEPT !.cell = [c \in 1 .. Size |-> IF c \in Span(i, n) THEN Raw ELSE m.cell[c]]]

release_storage(m, a) ==
  IF a.start = Null THEN m
  ELSE Forgotten(deallocate(m, a.start, CapacityOf(a) + 1), a.start, CapacityOf(a) + 1)

(* The characters of string s in block i, in place of its own block.       *)
InBlock(t, s, m, i, text, capacity) ==
  [mem |-> Written(m, i, text), str |-> [t.str EXCEPT ![s] = ArrayAt(i, Len(text), capacity)]]

(* Mutant: the room for CharT(0) is only kept when the block moves.        *)
StrReallocate_no_room(t, s, n) ==
  LET a == t.str[s]
      text == Read(t.mem, a.start, SizeOf(a))
      grow == a.start # Null /\ n > CapacityOf(a) /\ CanExpand(t.mem, a.start, CapacityOf(a) + 1, n)
      kept == try_expand(t.mem, a.start, CapacityOf(a) + 1, n)
  IN  {InBlock(t, s, kept, a.start, text, n) : x \in {y \in {1} : grow}}
      \cup {InBlock(t, s, release_storage(allocate(t.mem, i, n + 1), a), i, text, n) :
              i \in Places(t.mem, n + 1)}

(* reallocate for n characters: in place, or in a new block.               *)
StrReallocate(t, s, n) ==
  LET a == t.str[s]
      text == Read(t.mem, a.start, SizeOf(a))
      grow == /\ a.start # Null /\ n > CapacityOf(a)
              /\ CanExpand(t.mem, a.start, CapacityOf(a) + 1, n + 1)
      kept == try_expand(t.mem, a.start, CapacityOf(a) + 1, n + 1)
  IN  {InBlock(t, s, kept, a.start, text, n) : x \in {y \in {1} : grow}}
      \cup {InBlock(t, s, release_storage(allocate(t.mem, i, n + 1), a), i, text, n) :
              i \in Places(t.mem, n + 1)}

(* init_empty, when the string was moved from.                             *)
WithBlock(t, s) == IF t.str[s].start = Null THEN StrReallocate(t, s, 0) ELSE {t}

(* reserve                                                                 *)
Reserved(t, s, n) ==
  IF t.str[s].start = Null \/ n > CapacityOf(t.str[s]) THEN StrReallocate(t, s, n) ELSE {t}

(* The text of s in its present block.                                     *)
WithText(t, s, text) ==
  InBlock(t, s, t.mem, t.str[s].start, text, CapacityOf(t.str[s]))

StrReserve(s, n) == \E t \in Reserved(StrNow, s, n) : StrBecomes(t)

(* assign, and the assignments from other strings.                         *)
assign(s, text) ==
  \E t \in WithBlock(StrNow, s) :
    \E u \in Reserved(t, s, Len(text)) : StrBecomes(WithText(u, s, text))

(* There is memory for an empty string, but not for the characters.        *)
AssignThrows(s, text) ==
  \E t \in WithBlock(StrNow, s) : Reserved(t, s, Len(text)) = {} /\ StrBecomes(t)

(* append; a string that was moved from must get some characters.          *)
append(s, text) ==
  /\ str[s].start # Null \/ text # <<>>
  /\ \E t \in Reserved(StrNow, s, StrSize(s) + Len(text)) :
       StrBecomes(WithText(t, s, Text(s) \o text))

StrClear(s) == str[s].start # Null /\ StrBecomes(WithText(StrNow, s, <<>>))

StrMoveAssign(s, u) ==
  /\ mem' = release_storage(mem, str[s])
  /\ str' = [str EXCEPT ![s] = str[u], ![u] = NullArray]

(* A string is constructed, moved into s and destroyed.                    *)
StrConstructAssign(s, text) ==
  \E i \in Places(mem, Len(text) + 1) :
    StrBecomes(InBlock(StrNow, s, release_storage(allocate(mem, i, Len(text) + 1), str[s]),
                       i, text, Len(text)))

StringNext ==
  \E s \in Strings :
    \/ \E text \in Texts :
         \/ assign(s, text) \/ AssignThrows(s, text) \/ StrConstructAssign(s, text)
         \/ append(s, text) \/ StrReserve(s, Len(text))
    \/ StrClear(s)
    \/ \E u \in Strings \ {s} :
         \/ StrMoveAssign(s, u) \/ StrConstructAssign(s, Text(u))
         \/ assign(s, Text(u)) \/ AssignThrows(s, Text(u))

StringBlocks ==
  {<<str[s].start, CapacityOf(str[s]) + 1>> : s \in {u \in Strings : str[u].start # Null}}

(* The cells of all blocks of strings.                                     *)
StringCells == UNION {Span(b[1], b[2]) : b \in StringBlocks}
=============================================================================
