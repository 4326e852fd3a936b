--------------------------------- MODULE Vfs --------------------------------
(***************************************************************************)
(* fish-worker: VirtualFileSystem (virtual_fs.rs), the tree of files that  *)
(* a worker serves and the bounded cache in front of it, each under a lock *)
(* of its own.  A read takes the locks one after the other, so the tree    *)
(* may change, and others may fill or clear the cache, in between.         *)
(*                                                                         *)
(* A path is a sequence of names; content v has v bytes.  A directory is   *)
(* there when a file is below it: only write_file makes one, for a file.   *)
(***************************************************************************)
EXTENDS Integers, Sequences, FiniteSets, SequencesExt, Functions

CONSTANTS
  Path,          \* the paths written and read
  Content,       \* 1 .. the size of the largest file
  Reader,
  MaxCacheBytes

ASSUME ContentAssumption == Content \subseteq Nat \ {0} /\ MaxCacheBytes \in Nat

VARIABLES
  root,         \* the content of each file of the tree
  entries,      \* the cache
  total_bytes,
  vpc, vpath,   \* where the read of each reader is, and its path
  vcontent,     \* what it has read, 0 for nothing yet
  before        \* history: the contents the path has had since that read began

vfsVars == <<root, entries, total_bytes, vpc, vpath, vcontent, before>>

VfsInit ==
  /\ root = <<>> /\ entries = <<>> /\ total_bytes = 0
  /\ vpc = [r \in Reader |-> "idle"] /\ vpath = [r \in Reader |-> <<>>]
  /\ vcontent = [r \in Reader |-> 0] /\ before = [r \in Reader |-> {}]

With(f, p, v) == [q \in DOMAIN f \cup {p} |-> IF q = p THEN v ELSE f[q]]
Below(p, q) == IsStrictPrefix(p, q)

ContentAt(f, p) == IF p \in DOMAIN f THEN f[p] ELSE 0

(* write_file fails when a file is in the way; a directory that is in the  *)
(* way is replaced with all that is below it.  The cache is not told.      *)
write_file(p, v) ==
  /\ \A q \in DOMAIN root : ~Below(q, p)
  /\ root' = With(Restrict(root, {q \in DOMAIN root : ~Below(p, q)}), p, v)
  /\ before' = [r \in Reader |->
       IF vpc[r] = "idle" THEN {} ELSE before[r] \cup {ContentAt(root', vpath[r])}]
  /\ UNCHANGED <<entries, total_bytes, vpc, vpath, vcontent>>

clear_cache ==
  /\ entries' = <<>> /\ total_bytes' = 0
  /\ UNCHANGED <<root, vpc, vpath, vcontent, before>>

-----------------------------------------------------------------------------
(* read_file: a path that is cached is answered without a look at the tree *)
MissCache(r, p) ==
  /\ vpc[r] = "idle"
  /\ p \notin DOMAIN entries
  /\ vpc' = [vpc EXCEPT ![r] = "tree"] /\ vpath' = [vpath EXCEPT ![r] = p]
  /\ before' = [before EXCEPT ![r] = {ContentAt(root, p)}]
  /\ UNCHANGED <<root, entries, total_bytes, vcontent>>

EndRead(r) ==
  /\ vpc' = [vpc EXCEPT ![r] = "idle"] /\ vpath' = [vpath EXCEPT ![r] = <<>>]
  /\ vcontent' = [vcontent EXCEPT ![r] = 0] /\ before' = [before EXCEPT ![r] = {}]

(* traverse_node: a path through a file, to a directory or to nothing is   *)
(* an error.                                                               *)
ReadTree(r) ==
  /\ vpc[r] = "tree"
  /\ IF vpath[r] \in DOMAIN root
     THEN /\ vcontent' = [vcontent EXCEPT ![r] = root[vpath[r]]]
          /\ vpc' = [vpc EXCEPT ![r] = "memoize"]
          /\ UNCHANGED <<vpath, before>>
     ELSE EndRead(r)
  /\ UNCHANGED <<root, entries, total_bytes>>

\* Slip: the cache is not looked at again under its write lock.
Memoize_Twice(r) ==
  /\ vpc[r] = "memoize"
  /\ IF total_bytes + vcontent[r] <= MaxCacheBytes
     THEN /\ entries' = With(entries, vpath[r], vcontent[r])
          /\ total_bytes' = total_bytes + vcontent[r]
     ELSE UNCHANGED <<entries, total_bytes>>
  /\ EndRead(r)
  /\ UNCHANGED root

Memoize(r) ==
  /\ vpc[r] = "memoize"
  /\ IF vpath[r] \notin DOMAIN entries /\ total_bytes + vcontent[r] <= MaxCacheBytes
     THEN /\ entries' = With(entries, vpath[r], vcontent[r])
          /\ total_bytes' = total_bytes + vcontent[r]
     ELSE UNCHANGED <<entries, total_bytes>>
  /\ EndRead(r)
  /\ UNCHANGED root

VfsNext ==
  \/ \E p \in Path, v \in Content : write_file(p, v)
  \/ clear_cache
  \/ \E r \in Reader : (\E p \in Path : MissCache(r, p)) \/ ReadTree(r) \/ Memoize(r)

VfsSpec == VfsInit /\ [][VfsNext]_vfsVars

-----------------------------------------------------------------------------
(* The bytes of a set of files, one by one. *)
BytesOf(f) == UNION {{p} \X (1 .. f[p]) : p \in DOMAIN f}

(* The bytes counted are those of the entries, however reads of the same   *)
(* path and clears interleave, and they stay within the budget.            *)
CacheBytesAreExact ==
  /\ total_bytes = Cardinality(BytesOf(entries))
  /\ total_bytes <= MaxCacheBytes

(* No file is below another one: what a write replaces, and what it is     *)
(* refused for, keep the tree a tree.                                      *)
TreeIsATree == \A p, q \in DOMAIN root : ~Below(p, q)

(* What a read returns or remembers is what the path had at some moment of *)
(* that read: nothing older enters the cache.                              *)
ReadsAreAtomic == \A r \in Reader : vcontent[r] # 0 => vcontent[r] \in before[r]

(* The tree and the cache of read_file, write_file and clear_cache, after  *)
(* every locked section.                                                   *)
VfsIsSound == CacheBytesAreExact /\ TreeIsATree /\ ReadsAreAtomic
=============================================================================
