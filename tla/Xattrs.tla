------------------------------- MODULE Xattrs --------------------------------
(***************************************************************************)
(* An inode's extended attributes: encoded by the builder (src/src/mkfs.rs *)
(* encode_inline_xattrs) and listed again by Filesystem::xattrs, through   *)
(* src/src/xattr.rs and acl.rs, entry by entry.  Images of other writers   *)
(* add shared entries, room behind the last entry, and damage.             *)
(*                                                                         *)
(* Places are bytes from where the inode's area, the shared entries or the *)
(* dictionary begin.  A name or value is its length and what tells it from *)
(* others.  An entry of four zero bytes is no attribute but padding.       *)
(***************************************************************************)
EXTENDS Integers, Sequences, SequencesExt

CONSTANTS
  Wanted,    \* what the builder is given: [attrs, prefixes]
  Foreign,   \* areas of other writers
  NULL

VARIABLES
  image,     \* [icount, at, shares, shared, count, dict, means]: what is where, and what
             \* it means to whoever wrote it, NULL if it is damaged
  pc,        \* "idle", "inline", "shared", "dict", "resolve", "ok", "BadXattr", "Io"
  cur,       \* the reader's place in the area, then in the dictionary
  shared,    \* shared indices not yet followed
  entries,   \* what is read
  dict,      \* the dictionary as far as it is read
  out,       \* what is resolved
  fault      \* history: the device has failed

vars == <<image, pc, cur, shared, entries, dict, out, fault>>

HeaderSize == 12
EntryHeaderSize == 4
EntryAlign == 4
LongPrefix == 128
U8Max == 255
U16Max == 65535

NsPrefix == [i \in 0 .. 255 |->
  CASE i = 1 -> "user." [] i = 2 -> "system.posix_acl_access"
    [] i = 3 -> "system.posix_acl_default" [] i = 4 -> "trusted."
    [] i = 5 -> "lustre." [] i = 6 -> "security." [] OTHER -> ""]

align_to_xattr_entry(n) == ((n + EntryAlign - 1) \div EntryAlign) * EntryAlign

total_len(e) == EntryHeaderSize + e.name.len + e.value.len

\* What is read where nothing was written.
Zeros == [name_index |-> 0, name |-> [len |-> 0, id |-> "none"], value |-> [len |-> 0, id |-> "none"]]
is_padding(e) == e.name.len = 0 /\ e.value.len = 0 /\ e.name_index = 0

At(place) == IF place \in DOMAIN image.at THEN image.at[place] ELSE Zeros
-----------------------------------------------------------------------------
\* A value that is an ACL, from its entries [tag, perm, id], and those of such a value.
encode_posix_acl(acl) ==
  [len |-> 4 + 8 * Len(acl), id |-> "acl", version |-> 2, acl |-> acl]

AclTag(raw) ==
  CASE raw = 1 -> "UserObj" [] raw = 2 -> "User" [] raw = 4 -> "GroupObj"
    [] raw = 8 -> "Group" [] raw = 16 -> "Mask" [] raw = 32 -> "Other" [] OTHER -> "Unknown"

\* What acl::parse refuses, in its order.
acl_refusal(value) ==
  IF value.len < 4 THEN "shorter than 4-byte header"
  ELSE IF value.id # "acl" \/ value.version # 2 THEN "version != 2"
  ELSE IF (value.len - 4) % 8 # 0 THEN "length not a multiple of 8"
  ELSE "none"

acl_parse(value) ==
  LET error == acl_refusal(value)
  IN  [error |-> error,
       entries |->
         [k \in 1 .. (IF error = "none" THEN (value.len - 4) \div 8 ELSE 0) |->
            [value.acl[k] EXCEPT !.tag = AclTag(@)]]]

\* What is said of a value that is under no name of an ACL.
NoAcl == [error |-> "none", entries |-> <<>>]

\* A full name in its three parts, of a name_index of its own or of the dictionary's.
namespace(i) == IF i \in DOMAIN NsPrefix THEN NsPrefix[i] ELSE ""
resolve_full_name(i, e) ==
  [prefix |-> namespace(i), infix |-> Zeros.name, name |-> e.name, value |-> e.value,
   acl |-> IF i \in {2, 3} THEN acl_parse(e.value) ELSE NoAcl]
InDict(e, d) == e.name_index >= LongPrefix => e.name_index % LongPrefix < Len(d)
resolve_with_dict(e, d) ==
  IF e.name_index < LongPrefix THEN resolve_full_name(e.name_index, e)
  ELSE LET p == d[(e.name_index % LongPrefix) + 1]
       IN  [resolve_full_name(p.base_index, e) EXCEPT !.infix = p.infix, !.acl = NoAcl]

\* What whoever gave the builder these attributes means by them.
Meaning(w) ==
  IF \E i \in DOMAIN w.attrs : ~InDict(w.attrs[i], w.prefixes) THEN NULL
  ELSE [i \in DOMAIN w.attrs |-> resolve_with_dict(w.attrs[i], w.prefixes)]
-----------------------------------------------------------------------------
\* Seeded fault: an entry begins where the one before it ends.
NextEntry_Packed(end) == end

\* The builder pads each entry.
NextEntry(end) == align_to_xattr_entry(end)

\* Where things of these sizes go, one behind the other from `start`, and where they end.
Places(start, sizes) ==
  FoldLeft(LAMBDA places, size : Append(places, NextEntry(Last(places) + size)), <<start>>, sizes)

Put(places, things) ==
  [p \in {places[k] : k \in DOMAIN things} |-> things[CHOOSE k \in DOMAIN things : places[k] = p]]

InlinePlaces(attrs) == Places(HeaderSize, [k \in DOMAIN attrs |-> total_len(attrs[k])])

icount(attrs) ==
  IF attrs = <<>> THEN 0 ELSE (Last(InlinePlaces(attrs)) - HeaderSize) \div 4 + 1

TooLong(attrs) ==
  \/ \E i \in DOMAIN attrs : attrs[i].name.len > U8Max \/ attrs[i].value.len > U16Max
  \/ icount(attrs) > U16Max

\* A dictionary record: its size, the base index and the infix.
RecordSize(p) == 2 + 1 + p.infix.len
DictRefused(prefixes) ==
  Len(prefixes) > U8Max \/ \E i \in DOMAIN prefixes : 1 + prefixes[i].infix.len > U16Max
DictPlaces(prefixes) == Places(0, [k \in DOMAIN prefixes |-> RecordSize(prefixes[k])])

\* The builder writes no shared entries.
Built(w) ==
  [icount |-> icount(w.attrs), at |-> Put(InlinePlaces(w.attrs), w.attrs),
   shares |-> <<>>, shared |-> <<>>,
   count |-> Len(w.prefixes), dict |-> Put(DictPlaces(w.prefixes), w.prefixes),
   means |-> Meaning(w)]

Init ==
  /\ image \in {Built(w) : w \in {w \in Wanted : ~TooLong(w.attrs) /\ ~DictRefused(w.prefixes)}}
               \cup Foreign
  /\ pc = "idle" /\ cur = 0 /\ shared = <<>> /\ entries = <<>> /\ dict = <<>> /\ out = <<>>
  /\ fault = FALSE
-----------------------------------------------------------------------------
AreaEnd == HeaderSize + (image.icount - 1) * 4

Refuse == pc' = "BadXattr" /\ UNCHANGED <<image, cur, shared, entries, dict, out, fault>>

device_fails ==
  /\ pc \in {"idle", "shared", "dict"}
  /\ pc' = "Io" /\ fault' = TRUE
  /\ UNCHANGED <<image, cur, shared, entries, dict, out>>

\* The area and its header, with the shared indices right behind it.
read_inline_xattrs ==
  /\ pc = "idle"
  /\ LET end == HeaderSize + 4 * Len(image.shares)
     IN  \/ image.icount > 0 /\ end > AreaEnd /\ Refuse
         \/ /\ image.icount = 0 \/ end <= AreaEnd
            /\ pc' = IF image.icount = 0 THEN "shared" ELSE "inline"
            /\ cur' = end /\ shared' = image.shares
            /\ UNCHANGED <<image, entries, dict, out, fault>>

\* An entry begins at the reader's place; there is none where the area ends or is padding.
Found == AreaEnd - cur >= EntryHeaderSize /\ ~is_padding(At(cur))

inline_done ==
  /\ pc = "inline" /\ ~Found
  /\ pc' = "shared"
  /\ UNCHANGED <<image, cur, shared, entries, dict, out, fault>>

inline_entry ==
  /\ pc = "inline" /\ Found
  /\ LET end == cur + total_len(At(cur))
     IN  \/ end > AreaEnd /\ Refuse
         \/ /\ end <= AreaEnd
            /\ entries' = Append(entries, At(cur))
            /\ cur' = align_to_xattr_entry(end)
            /\ UNCHANGED <<image, pc, shared, dict, out, fault>>

\* A shared index counts in units of four bytes.
SharedAt(idx) ==
  IF idx * 4 \in DOMAIN image.shared THEN image.shared[idx * 4] ELSE Zeros

shared_entry ==
  /\ pc = "shared" /\ shared # <<>>
  /\ entries' = Append(entries, SharedAt(Head(shared)))
  /\ shared' = Tail(shared)
  /\ UNCHANGED <<image, pc, cur, dict, out, fault>>

\* An inode with no attributes needs no dictionary.
shared_done ==
  /\ pc = "shared" /\ shared = <<>>
  /\ pc' = IF entries = <<>> THEN "ok" ELSE "dict"
  /\ cur' = 0
  /\ UNCHANGED <<image, shared, entries, dict, out, fault>>

dict_entry ==
  /\ pc = "dict" /\ Len(dict) < image.count
  /\ \/ cur \notin DOMAIN image.dict /\ Refuse   \* a size of zero
     \/ /\ cur \in DOMAIN image.dict
        /\ dict' = Append(dict, image.dict[cur])
        /\ cur' = align_to_xattr_entry(cur + RecordSize(image.dict[cur]))
        /\ UNCHANGED <<image, pc, shared, entries, out, fault>>

dict_done ==
  /\ pc = "dict" /\ Len(dict) = image.count
  /\ pc' = "resolve"
  /\ UNCHANGED <<image, cur, shared, entries, dict, out, fault>>

resolve ==
  /\ pc = "resolve" /\ Len(out) < Len(entries)
  /\ LET e == entries[Len(out) + 1]
     IN  \/ ~InDict(e, dict) /\ Refuse
         \/ /\ InDict(e, dict)
            /\ out' = Append(out, resolve_with_dict(e, dict))
            /\ UNCHANGED <<image, pc, cur, shared, entries, dict, fault>>

resolved ==
  /\ pc = "resolve" /\ Len(out) = Len(entries)
  /\ pc' = "ok"
  /\ UNCHANGED <<image, cur, shared, entries, dict, out, fault>>

Next ==
  \/ read_inline_xattrs \/ inline_done \/ inline_entry \/ shared_entry \/ shared_done
  \/ dict_entry \/ dict_done \/ resolve \/ resolved \/ device_fails

Spec == Init /\ [][Next]_vars
-----------------------------------------------------------------------------
\* The attributes that are listed are those the writer was given, in its order, the shared ones
\* last, each with its full name and its value, an ACL with the entries it was made of; a
\* listing is refused only of an area that is damaged, and fails only with the device
\* (src/src/mkfs.rs encode_inline_xattrs, "The byte count satisfies the reader's `body_end`
\* math"; src/src/xattr.rs read_all_xattrs).
AttrsComeBack ==
  /\ pc = "ok" => out = image.means
  /\ pc = "BadXattr" => image.means = NULL
  /\ pc = "Io" => fault
=============================================================================
