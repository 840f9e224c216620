----------------------------- MODULE StringBuf -----------------------------
(***************************************************************************)
(* The string objects of string.c and the buffers they point to: one action*)
(* per operation that changes a string.                                    *)
(*                                                                         *)
(* A buffer is abstracted to its capacity and the position of the first    *)
(* NUL in it; characters are left out.  A write beyond a buffer, a write to*)
(* or a free() of memory that is not a string's own, and a use of a NULL   *)
(* pointer set fault, and nothing is said about the program after that.    *)
(*                                                                         *)
(* "heap" strings come from str_new and end in str_destroy.  "stack"       *)
(* strings are local variables, initialized to EMPTY_STRING, aliased to a  *)
(* character array and only read; str_alias of a heap string, whose buffer *)
(* it forgets, is left out.                                                *)
(*                                                                         *)
(* malloc(3) and vasprintf(3) can fail in str_copy and str_vprintf, which  *)
(* leaves the destination without a buffer and, after str_copy, with its   *)
(* old len.  The model is of callers that only destroy, truncate, swap or  *)
(* overwrite such a string (Usable).                                       *)
(***************************************************************************)
EXTENDS Integers

CONSTANTS
  Strs,         \* the string_t objects
  Bufs,         \* the heap buffers (a bound)
  Array,        \* a character array that is not on the heap
  NULL,
  ArrayLen,     \* the length of the text in Array
  InitialSize,  \* the size that str_new allocates
  StringMax     \* STRING_MAX

ASSUME SizeAssumption ==
  /\ InitialSize \in Nat \ {0} /\ StringMax \in Nat /\ ArrayLen \in Nat
  /\ InitialSize <= StringMax /\ ArrayLen < StringMax
ASSUME CellAssumption == Array \notin Bufs /\ NULL \notin Bufs \cup {Array}

VARIABLES
  kind,    \* "none", "heap" or "stack"
  value,   \* the buffer the string points to
  size,    \* str->size
  len,     \* str->len
  owner,   \* str->owner
  cap,     \* the size of each buffer as allocated, 0 if it is not
  nul,     \* the position of the first NUL in each buffer
  fault

vars == <<kind, value, size, len, owner, cap, nul, fault>>

Cells == Bufs \cup {Array}

TypeOK ==
  /\ kind \in [Strs -> {"none", "heap", "stack"}]
  /\ value \in [Strs -> Cells \cup {NULL}]
  /\ size \in [Strs -> 0..(StringMax + 1)]
  /\ len \in [Strs -> 0..StringMax]
  /\ owner \in [Strs -> BOOLEAN]
  /\ cap \in [Cells -> 0..(StringMax + 1)]
  /\ nul \in [Cells -> 0..StringMax]
  /\ fault \in BOOLEAN

Init ==
  /\ kind = [s \in Strs |-> "none"]
  /\ value = [s \in Strs |-> NULL]
  /\ size = [s \in Strs |-> 0] /\ len = [s \in Strs |-> 0]
  /\ owner = [s \in Strs |-> FALSE]
  /\ cap = [c \in Cells |-> IF c = Array THEN ArrayLen + 1 ELSE 0]
  /\ nul = [c \in Cells |-> IF c = Array THEN ArrayLen ELSE 0]
  /\ fault = FALSE

-----------------------------------------------------------------------------
Smaller(a, b) == IF a < b THEN a ELSE b

(* The program modifies its own strings only, and looks into those only    *)
(* that have a buffer.                                                     *)
Mutable(s) == ~fault /\ kind[s] = "heap"
Usable(s) == Mutable(s) /\ value[s] # NULL

(* Memory that the string may not write to, or may not free. *)
BadWrite(s) == value[s] \notin Bufs \/ cap[value[s]] = 0
BadFree(s) == value[s] # NULL /\ BadWrite(s)

(* A buffer that malloc can return once the one at p has been freed. *)
Available(b, p) == cap[b] = 0 \/ b = p

(* The capacities after the buffer at p, if any, has been freed and b has  *)
(* been allocated with n bytes.                                            *)
Allocated(p, b, n) ==
  [c \in Cells |-> IF c = b THEN n ELSE IF c = p THEN 0 ELSE cap[c]]

(* str_new.  Where malloc fails it throws, and the caller, whose call ncc  *)
(* has wrapped in try(), returns without a string: a stuttering step.      *)
str_new(s) ==
  /\ ~fault /\ kind[s] = "none"
  /\ \E b \in Bufs :
       /\ cap[b] = 0
       /\ value' = [value EXCEPT ![s] = b]
       /\ cap' = [cap EXCEPT ![b] = InitialSize]
       /\ nul' = [nul EXCEPT ![b] = 0]
  /\ kind' = [kind EXCEPT ![s] = "heap"]
  /\ size' = [size EXCEPT ![s] = InitialSize]
  /\ len' = [len EXCEPT ![s] = 0]
  /\ owner' = [owner EXCEPT ![s] = TRUE]
  /\ UNCHANGED fault

(* Mutant: the buffer of the string is forgotten. *)
DestroyKeepsBuffer(s) ==
  /\ Mutable(s)
  /\ kind' = [kind EXCEPT ![s] = "none"]
  /\ value' = [value EXCEPT ![s] = NULL]
  /\ UNCHANGED <<size, len, owner, cap, nul, fault>>

(* str_destroy: the buffer is freed whether the string is its owner or not.*)
str_destroy(s) ==
  /\ Mutable(s)
  /\ kind' = [kind EXCEPT ![s] = "none"]
  /\ value' = [value EXCEPT ![s] = NULL]
  /\ cap' = [c \in Cells |-> IF c = value[s] THEN 0 ELSE cap[c]]
  /\ fault' = BadFree(s)
  /\ UNCHANGED <<size, len, owner, nul>>

(* string_t s = EMPTY_STRING; and str_alias(&s, array). *)
AliasLocal(s) ==
  /\ ~fault /\ kind[s] = "none"
  /\ kind' = [kind EXCEPT ![s] = "stack"]
  /\ value' = [value EXCEPT ![s] = Array]
  /\ len' = [len EXCEPT ![s] = nul[Array]]
  /\ size' = [size EXCEPT ![s] = nul[Array] + 1]
  /\ owner' = [owner EXCEPT ![s] = FALSE]
  /\ UNCHANGED <<cap, nul, fault>>

(* The end of the block with the local variable. *)
EndLocal(s) ==
  /\ ~fault /\ kind[s] = "stack"
  /\ kind' = [kind EXCEPT ![s] = "none"]
  /\ value' = [value EXCEPT ![s] = NULL]
  /\ UNCHANGED <<size, len, owner, cap, nul, fault>>

-----------------------------------------------------------------------------
(* Operations on the contents. *)

(* Mutant: the NUL is forgotten. *)
ShortenHeader(s, n) ==
  /\ len' = [len EXCEPT ![s] = n]
  /\ UNCHANGED nul

(* The string s is set to length n, with a NUL there. *)
Shorten(s, n) ==
  /\ len' = [len EXCEPT ![s] = n]
  /\ nul' = [c \in Cells |-> IF c = value[s] THEN Smaller(nul[c], n) ELSE nul[c]]

(* str_truncate writes its NUL only if there is a buffer. *)
str_truncate(s) ==
  /\ Mutable(s)
  /\ Shorten(s, 0)
  /\ fault' = (size[s] > 0 /\ BadWrite(s))
  /\ UNCHANGED <<kind, value, size, owner, cap>>

(* The limits that str_set_len checks. *)
Settable(s, n) == n <= StringMax /\ n < size[s]

(* str_set_len *)
str_set_len(s, n) ==
  /\ Usable(s)
  /\ Settable(s, n)
  /\ Shorten(s, n)
  /\ fault' = (BadWrite(s) \/ n >= cap[value[s]])
  /\ UNCHANGED <<kind, value, size, owner, cap>>

(* str_truncate_at, which checks the length only. *)
str_truncate_at(s, n) ==
  /\ Usable(s)
  /\ n <= len[s]
  /\ Shorten(s, n)
  /\ fault' = (BadWrite(s) \/ n >= cap[value[s]])
  /\ UNCHANGED <<kind, value, size, owner, cap>>

(* str_chomp removes a line feed, a carriage return, both or nothing from  *)
(* the end of a text that is not empty.                                    *)
str_chomp(s, n) ==
  /\ len[s] > 0
  /\ n <= 2 /\ (n = 2 => len[s] - 1 > 0)
  /\ str_truncate_at(s, len[s] - n)

(* str_set_terminator on a text that is not empty: the last character is   *)
(* replaced, or removed if the terminator is NUL.                          *)
str_set_terminator(s, terminator) ==
  /\ Usable(s) /\ len[s] > 0
  /\ IF terminator = "NUL"
       THEN Shorten(s, len[s] - 1)
       ELSE /\ nul' = [c \in Cells |-> IF c = value[s] /\ nul[c] = len[s] - 1
                                         THEN len[s] ELSE nul[c]]
            /\ UNCHANGED len
  /\ fault' = (BadWrite(s) \/ len[s] > cap[value[s]])
  /\ UNCHANGED <<kind, value, size, owner, cap>>

(* str_to_upper, and str_translate: characters are replaced in place, up to*)
(* the length or up to the NUL.                                            *)
InPlace(s) ==
  /\ Usable(s)
  /\ fault' = (BadWrite(s) \/ len[s] > cap[value[s]] \/ nul[value[s]] >= cap[value[s]])
  /\ UNCHANGED <<kind, value, size, len, owner, cap, nul>>

(* str_resize to n bytes, as far as the buffer is concerned: b is where it *)
(* is afterwards.                                                          *)
Resized(s, n, b) ==
  /\ IF size[s] >= n THEN b = value[s] ELSE b \in Bufs /\ Available(b, value[s])
  /\ value' = [value EXCEPT ![s] = b]
  /\ size' = [size EXCEPT ![s] = IF @ < n THEN n ELSE @]
  /\ cap' = IF size[s] >= n THEN cap ELSE Allocated(value[s], b, n)

(* str_resize writes a NUL into the last byte. *)
str_resize(s, n) ==
  /\ Usable(s)
  /\ n # 0 /\ n <= StringMax
  /\ \E b \in Cells :
       /\ Resized(s, n, b)
       /\ nul' = [c \in Cells |-> IF c = b /\ size[s] < n
                                    THEN Smaller(nul[value[s]], n - 1) ELSE nul[c]]
  /\ fault' = (size[s] < n /\ BadFree(s))
  /\ UNCHANGED <<kind, len, owner>>

(* The bytes that a text of length n needs. *)
Room(n) == n + 1

(* s becomes a text of length n, of which the first NUL is at z, in a      *)
(* buffer that str_resize has made large enough.                           *)
Fill(s, n, z) ==
  \E b \in Cells :
    /\ Resized(s, Room(n), b)
    /\ nul' = [c \in Cells |-> IF c = b THEN z ELSE nul[c]]
    /\ len' = [len EXCEPT ![s] = n]
    /\ fault' = \/ size[s] < Room(n) /\ BadFree(s)
                \/ b \notin Bufs \/ cap'[b] <= n

(* str_cat of n characters. *)
str_cat(s, n) ==
  /\ Usable(s)
  /\ n > 0 /\ n < StringMax
  /\ size[s] < Room(len[s] + n) => Room(len[s] + n) <= StringMax
  /\ Fill(s, len[s] + n, IF nul[value[s]] < len[s] THEN nul[value[s]] ELSE len[s] + n)
  /\ UNCHANGED <<kind, owner>>

(* str_putc, and str_set_terminator on an empty text; a NUL appends nothing.*)
str_putc(s) == str_cat(s, 1)

(* str_append: str_cat of the C string in the buffer of another string. *)
str_append(d, s) ==
  /\ d # s /\ kind[s] # "none" /\ value[s] # NULL
  /\ str_cat(d, nul[value[s]])

(* str_ncpy of n characters, and str_cpy; str_time makes its text this way.*)
str_ncpy(s, n) ==
  /\ Usable(s)
  /\ n > 0 /\ Room(n) <= StringMax
  /\ Fill(s, n, n)
  /\ owner' = [owner EXCEPT ![s] = TRUE]
  /\ UNCHANGED kind

(* str_read of up to n bytes: read(2) returns got bytes, with the first NUL*)
(* among them at z, or it fails or would block, and then the text is empty.*)
str_read(s, n, got, z) ==
  /\ Usable(s)
  /\ Room(n) <= StringMax
  /\ got <= n /\ z <= got
  /\ \E b \in Cells :
       /\ Resized(s, Room(n), b)
       /\ nul' = [c \in Cells |-> IF c = b THEN z ELSE nul[c]]
       /\ fault' = \/ size[s] < Room(n) /\ BadFree(s)
                   \/ b \notin Bufs \/ cap'[b] <= n
  /\ len' = [len EXCEPT ![s] = got]
  /\ UNCHANGED <<kind, owner>>

(* An operation that runs out of memory in str_resize, or asks for too     *)
(* much: str_cat leaves the string as it was, str_ncpy and str_read have   *)
(* truncated it before.                                                    *)
ResizeFails(s) ==
  /\ Usable(s)
  /\ \/ UNCHANGED <<len, nul, fault>>
     \/ Shorten(s, 0) /\ fault' = (size[s] > 0 /\ BadWrite(s))
  /\ UNCHANGED <<kind, value, size, owner, cap>>

(* The size of the buffer that str_copy allocates. *)
CopySize(s) == size[s]

(* str_copy and str_move have something to copy; if not, they truncate. *)
MayCopy(d, s) ==
  /\ Mutable(d) /\ kind[s] # "none"
  /\ d # s
  /\ len[s] # 0 /\ size[s] # 0

(* The buffer that str_copy frees. *)
Replaced(d) == IF owner[d] THEN value[d] ELSE NULL

(* The header and the buffer of d after str_copy. *)
Copied(d, s, b) ==
  /\ Available(b, Replaced(d))
  /\ value' = [value EXCEPT ![d] = b]
  /\ cap' = Allocated(Replaced(d), b, CopySize(s))
  /\ size' = [size EXCEPT ![d] = size[s]]
  /\ owner' = [owner EXCEPT ![d] = TRUE]
  /\ fault' = \/ owner[d] /\ BadFree(d)
              \/ value[s] \notin Cells \/ CopySize(s) <= len[s]
  /\ UNCHANGED kind

(* str_copy *)
str_copy(d, s) ==
  /\ MayCopy(d, s)
  /\ \E b \in Bufs :
       /\ Copied(d, s, b)
       /\ nul' = [nul EXCEPT ![b] = nul[value[s]]]
  /\ len' = [len EXCEPT ![d] = len[s]]

Larger(a, b) == IF a < b THEN b ELSE a

(* str_prepend: the text of d is saved in a string of its own, d becomes a *)
(* copy of s, and the saved text is appended.  When that fails, d is left  *)
(* as the copy, which is what str_copy does.                               *)
str_prepend(d, s) ==
  /\ MayCopy(d, s) /\ value[d] # NULL /\ len[d] # 0
  /\ LET saved == nul[value[d]]
         need == Room(len[s] + saved)
         bytes == IF saved = 0 THEN size[s] ELSE Larger(size[s], need)
     IN /\ bytes <= StringMax
        /\ \E b \in Bufs :
             /\ Available(b, Replaced(d))
             /\ value' = [value EXCEPT ![d] = b]
             /\ cap' = Allocated(Replaced(d), b, bytes)
             /\ nul' = [nul EXCEPT ![b] = IF nul[value[s]] < len[s]
                                            THEN nul[value[s]] ELSE len[s] + saved]
        /\ size' = [size EXCEPT ![d] = bytes]
        /\ len' = [len EXCEPT ![d] = len[s] + saved]
        /\ fault' = ((owner[d] /\ BadFree(d)) \/ CopySize(s) <= len[s])
  /\ owner' = [owner EXCEPT ![d] = TRUE]
  /\ UNCHANGED kind

(* str_escape, str_unescape and str_subst_regex build a text of length n,  *)
(* which is not empty, in a string of their own and str_move it to d.      *)
Rebuild(d, n) ==
  /\ Usable(d)
  /\ n > 0 /\ Room(n) <= StringMax
  /\ LET bytes == Larger(InitialSize, Room(n)) IN
       /\ \E b \in Bufs :
            /\ Available(b, Replaced(d))
            /\ value' = [value EXCEPT ![d] = b]
            /\ cap' = Allocated(Replaced(d), b, bytes)
            /\ nul' = [nul EXCEPT ![b] = n]
       /\ size' = [size EXCEPT ![d] = bytes]
  /\ len' = [len EXCEPT ![d] = n]
  /\ owner' = [owner EXCEPT ![d] = TRUE]
  /\ fault' = (owner[d] /\ BadFree(d))
  /\ UNCHANGED kind

(* malloc fails in str_copy: the old buffer is gone and len is not reset.  *)
CopyFails(d, s) ==
  /\ MayCopy(d, s)
  /\ value' = [value EXCEPT ![d] = NULL]
  /\ size' = [size EXCEPT ![d] = 0]
  /\ cap' = [c \in Cells |-> IF c = Replaced(d) THEN 0 ELSE cap[c]]
  /\ fault' = (owner[d] /\ BadFree(d))
  /\ UNCHANGED <<kind, len, owner, nul>>

(* str_move: copy, then truncate the source. *)
str_move(d, s) ==
  /\ MayCopy(d, s) /\ Mutable(s)
  /\ \E b \in Bufs :
       /\ Copied(d, s, b)
       /\ nul' = [nul EXCEPT ![b] = nul[value[s]], ![value[s]] = 0]
  /\ len' = [len EXCEPT ![d] = len[s], ![s] = 0]

(* The lengths that str_vprintf accepts. *)
Printable(n) == n <= StringMax

(* str_vprintf with a result of length n: the old buffer is freed whether  *)
(* it is owned or not, and the owner is not set.                           *)
str_vprintf(s, n) ==
  /\ Mutable(s) /\ Printable(n)
  /\ LET old == IF size[s] > 0 THEN value[s] ELSE NULL IN
       /\ \E b \in Bufs :
            /\ Available(b, old)
            /\ value' = [value EXCEPT ![s] = b]
            /\ cap' = Allocated(old, b, n + 1)
            /\ nul' = [nul EXCEPT ![b] = n]
  /\ len' = [len EXCEPT ![s] = n]
  /\ size' = [size EXCEPT ![s] = n + 1]
  /\ fault' = (size[s] > 0 /\ BadFree(s))
  /\ UNCHANGED <<kind, owner>>

(* vasprintf(3) fails, or its result is longer than STRING_MAX. *)
VprintfFails(s) ==
  /\ Mutable(s)
  /\ value' = [value EXCEPT ![s] = NULL]
  /\ cap' = [c \in Cells |-> IF size[s] > 0 /\ c = value[s] THEN 0 ELSE cap[c]]
  /\ size' = [size EXCEPT ![s] = 0] /\ len' = [len EXCEPT ![s] = 0]
  /\ fault' = (size[s] > 0 /\ BadFree(s))
  /\ UNCHANGED <<kind, owner, nul>>

(* str_swap exchanges the structures. *)
str_swap(s, t) ==
  /\ Mutable(s) /\ Mutable(t)
  /\ value' = [value EXCEPT ![s] = value[t], ![t] = value[s]]
  /\ size' = [size EXCEPT ![s] = size[t], ![t] = size[s]]
  /\ len' = [len EXCEPT ![s] = len[t], ![t] = len[s]]
  /\ owner' = [owner EXCEPT ![s] = owner[t], ![t] = owner[s]]
  /\ UNCHANGED <<kind, cap, nul, fault>>

Next ==
  \E s \in Strs :
    \/ str_new(s) \/ str_destroy(s) \/ AliasLocal(s) \/ EndLocal(s)
    \/ str_truncate(s) \/ ResizeFails(s) \/ VprintfFails(s)
    \/ InPlace(s) \/ str_putc(s)
    \/ \E terminator \in {"NUL", "character"} : str_set_terminator(s, terminator)
    \/ \E n \in 0..StringMax :
         \/ str_set_len(s, n) \/ str_truncate_at(s, n) \/ str_chomp(s, n)
         \/ str_resize(s, n) \/ str_cat(s, n) \/ str_ncpy(s, n) \/ Rebuild(s, n)
         \/ \E got, z \in 0..n : str_read(s, n, got, z)
    \/ \E n \in 0..(StringMax + 1) : str_vprintf(s, n)
    \/ \E t \in Strs :
         \/ str_append(s, t) \/ str_copy(s, t) \/ CopyFails(s, t)
         \/ str_prepend(s, t) \/ str_move(s, t) \/ str_swap(s, t)

Spec == Init /\ [][Next]_vars

-----------------------------------------------------------------------------
(* Properties. *)

(* The header agrees with the buffer: the size is the one that was         *)
(* allocated (0 without a buffer), the text and its NUL end inside it, and *)
(* the C string in the buffer is never longer than the header says.  No    *)
(* operation has written beyond a buffer, written to or freed memory that  *)
(* is not its string's, or followed a NULL pointer.                        *)
InBounds ==
  /\ TypeOK /\ ~fault
  /\ \A s \in Strs :
       kind[s] # "none" =>
         IF value[s] = NULL THEN size[s] = 0
         ELSE /\ size[s] = cap[value[s]]
              /\ len[s] < size[s] /\ nul[value[s]] <= len[s]

(* Every buffer belongs to exactly one string from str_new: none leaks and *)
(* none is shared.                                                         *)
BuffersOwned ==
  \A b \in Bufs :
    cap[b] # 0 => /\ \E s \in Strs : kind[s] = "heap" /\ value[s] = b
                  /\ \A s, t \in Strs :
                       kind[s] # "none" /\ kind[t] # "none"
                         /\ value[s] = b /\ value[t] = b => s = t
=============================================================================
