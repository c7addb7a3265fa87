-------------------------------- MODULE Tree --------------------------------
(***************************************************************************)
(* Names in the mount, xetfs: the inode tree that connect builds from the  *)
(* volume's catalog entries, the kernel's path walks over it, new files,   *)
(* the catalog key a file is written back to, and directory streams.       *)
(*                                                                         *)
(* A catalog key is a string that agents choose.  What matters of it here  *)
(* is whether it begins with a slash and into which components it splits.  *)
(* What happens to a file's bytes between its opening and its write-back   *)
(* is module Xetfs; here an edit and its write-back are one step.          *)
(***************************************************************************)
EXTENDS Integers, SequencesExt

CONSTANTS Key,          \* catalog keys: [abs : BOOLEAN, comps : Seq(Name)]
          Hash,         \* file hashes
          MaxEntries,   \* bound on the entries of the volume
          MaxNodes,     \* bound on the inodes of a mount
          None

Names == UNION {Range(k.comps) : k \in Key}

ASSUME TreeAssumption ==
    /\ Key \subseteq [abs : BOOLEAN, comps : Seq(Names)]
    /\ IsFiniteSet(Key)
    /\ MaxEntries \in Nat
    /\ MaxNodes \in Nat
    /\ None \notin Hash
    /\ None \notin Nat

VARIABLES
    catalog,    \* at the server: key -> file hash
    nodes,      \* nodes: node of inode i at nodes[i]; empty while not mounted.
                \* The field next is Len(nodes) + 1.
    stream,     \* in the kernel: a directory stream, with the entries listed
                \* so far and (history) the directory's children at its opening
    shown       \* history: the entries at the last connect, and what this
                \* mount has written back since

vars == <<catalog, nodes, stream, shown>>

Root == 1

Node == [name : Names \cup {None}, kind : {"dir", "file"}, parent : Nat,
         children : Seq(Nat), hash : Hash \cup {None}]

Mounted == nodes # <<>>

Present(cat) == {k \in Key : cat[k] # None}

Init ==
    /\ catalog \in {cat \in [Key -> Hash \cup {None}] : Cardinality(Present(cat)) <= MaxEntries}
    /\ nodes = <<>>
    /\ stream = None
    /\ shown = [k \in Key |-> None]

-----------------------------------------------------------------------------
(* connect *)

RootNode == [name |-> None, kind |-> "dir", parent |-> Root, children |-> <<>>, hash |-> None]

\* A plausible slip: the parent does not get to know its child.
AddNodeUnlisted(ns, name, kind, parent, hash) ==
    Append(ns, [name |-> name, kind |-> kind, parent |-> parent, children |-> <<>>, hash |-> hash])

\* The nodes ns with one more, the last child of its parent.
AddNode(ns, name, kind, parent, hash) ==
    Append([ns EXCEPT ![parent].children = Append(@, Len(ns) + 1)],
           [name |-> name, kind |-> kind, parent |-> parent, children |-> <<>>, hash |-> hash])

\* HashMap::insert.
Insert(map, key, val) == [k \in DOMAIN map \cup {key} |-> IF k = key THEN val ELSE map[k]]

\* A plausible slip: dir_ino is keyed by the component instead of the path
\* accumulated so far.
EnterDirByName(t, comp) ==
    LET ino == Len(t.nodes) + 1
    IN  IF <<comp>> \in DOMAIN t.dir_ino
           THEN [t EXCEPT !.parent = t.dir_ino[<<comp>>]]
           ELSE [nodes |-> AddNode(t.nodes, comp, "dir", t.parent, None),
                 dir_ino |-> Insert(t.dir_ino, <<comp>>, ino),
                 parent |-> ino,
                 accum |-> t.accum]

\* One turn of the loop over the components, but for the last one: the
\* directory is found in dir_ino or made.
EnterDir(t, comp) ==
    LET accum == Append(t.accum, comp)
        ino == Len(t.nodes) + 1
    IN  IF accum \in DOMAIN t.dir_ino
           THEN [t EXCEPT !.parent = t.dir_ino[accum], !.accum = accum]
           ELSE [nodes |-> AddNode(t.nodes, comp, "dir", t.parent, None),
                 dir_ino |-> Insert(t.dir_ino, accum, ino),
                 parent |-> ino,
                 accum |-> accum]

\* One turn of the loop over the entries.  Leading slashes are trimmed, and an
\* entry of which nothing is left is skipped.
AddEntry(t, k) ==
    IF k.comps = <<>> THEN t
    ELSE LET d == FoldLeft(EnterDir, [t EXCEPT !.parent = Root, !.accum = <<>>], Front(k.comps))
         IN  [d EXCEPT !.nodes = AddNode(@, Last(k.comps), "file", d.parent, catalog[k])]

\* list_entries iterates over a HashMap: the entries come in any order.
Connect ==
    /\ ~Mounted
    /\ \E entries \in SetToSeqs(Present(catalog)) :
         nodes' = FoldLeft(AddEntry,
                           [nodes |-> <<RootNode>>, dir_ino |-> <<>>, parent |-> Root, accum |-> <<>>],
                           entries).nodes
    /\ shown' = catalog
    /\ UNCHANGED <<catalog, stream>>

Unmount ==
    /\ Mounted
    /\ stream = None
    /\ nodes' = <<>>
    /\ shown' = [k \in Key |-> None]
    /\ UNCHANGED <<catalog, stream>>

-----------------------------------------------------------------------------
(* Paths *)

Dirs == {i \in 1..Len(nodes) : nodes[i].kind = "dir"}
Files == {i \in 1..Len(nodes) : nodes[i].kind = "file"}

\* lookup: the first child of that name.
Lookup(d, name) ==
    LET children == nodes[d].children
        found == {k \in 1..Len(children) : nodes[children[k]].name = name}
    IN  IF found = {} THEN None ELSE children[Min(found)]

\* One step of a path walk in the kernel.
Walk(i, name) == IF i \in Dirs THEN Lookup(i, name) ELSE None

\* The kernel's walk from the root, one lookup per component.
Resolve(comps) == FoldLeft(Walk, Root, comps)

\* A plausible slip: the parts are not reversed.
FullPathUnreversed(i) ==
    LET up[j \in 1..Len(nodes)] ==
          IF j = Root THEN <<>> ELSE <<nodes[j].name>> \o up[nodes[j].parent]
    IN  [abs |-> TRUE, comps |-> up[i]]

\* full_path, as a catalog key: it begins with a slash.
FullPath(i) ==
    LET up[j \in 1..Len(nodes)] ==
          IF j = Root THEN <<>> ELSE Append(up[nodes[j].parent], nodes[j].name)
    IN  [abs |-> TRUE, comps |-> up[i]]

\* A plausible slip: the new inode is not looked for among the children.
CreateUnlooked(d, name) ==
    /\ d \in Dirs
    /\ Len(nodes) < MaxNodes
    /\ [abs |-> TRUE, comps |-> Append(FullPath(d).comps, name)] \in Key
    /\ nodes' = AddNode(nodes, name, "file", d, None)
    /\ UNCHANGED <<catalog, stream, shown>>

\* create, which the kernel sends for a name that lookup did not find.
Create(d, name) ==
    /\ d \in Dirs
    /\ Len(nodes) < MaxNodes
    /\ [abs |-> TRUE, comps |-> Append(FullPath(d).comps, name)] \in Key
    /\ Lookup(d, name) = None
    /\ nodes' = AddNode(nodes, name, "file", d, None)
    /\ UNCHANGED <<catalog, stream, shown>>

\* The kernel knows an inode from a walk, or from the reply to create.
Known(i) == nodes[i].hash = None \/ \E k \in Key : Resolve(k.comps) = i

\* flush_bytes of a file an application has edited.
WriteBack(i, h) ==
    /\ i \in Files
    /\ Known(i)
    /\ FullPath(i) \in Key
    /\ catalog[FullPath(i)] = None => Cardinality(Present(catalog)) < MaxEntries
    /\ catalog' = [catalog EXCEPT ![FullPath(i)] = h]
    /\ shown' = [shown EXCEPT ![FullPath(i)] = h]
    /\ nodes' = [nodes EXCEPT ![i].hash = h]
    /\ UNCHANGED stream

-----------------------------------------------------------------------------
(* readdir *)

\* What readdir enumerates.
Listing(d) ==
    <<<<".", d>>, <<"..", nodes[d].parent>>>>
        \o [k \in 1..Len(nodes[d].children) |-> <<"child", nodes[d].children[k]>>]

\* A plausible slip: an entry's offset is its own position.
CookieAtEntry(k) == k - 1

\* The offset handed out with entry number k, counted from one: `(i + 1) as i64'
\* with i counted from zero.
Cookie(k) == k

OpenDir(d) ==
    /\ stream = None
    /\ d \in Dirs
    /\ stream' = [dir |-> d, offset |-> 0, seen |-> <<>>, had |-> Range(nodes[d].children)]
    /\ UNCHANGED <<catalog, nodes, shown>>

\* One request: the entries after the first `offset', as many as fit into the
\* kernel's buffer; the next request continues at the last one's offset.
ReadDir(n) ==
    /\ stream # None
    /\ stream.offset + n <= Len(Listing(stream.dir))
    /\ stream' = [stream EXCEPT !.offset = Cookie(@ + n),
                                !.seen = @ \o SubSeq(Listing(stream.dir), stream.offset + 1, stream.offset + n)]
    /\ UNCHANGED <<catalog, nodes, shown>>

AtEnd == stream.offset >= Len(Listing(stream.dir))

CloseDir ==
    /\ stream # None
    /\ stream' = None
    /\ UNCHANGED <<catalog, nodes, shown>>

-----------------------------------------------------------------------------
\* Agents register files beside the mount.
AgentIngests(k, h) ==
    /\ catalog[k] = None => Cardinality(Present(catalog)) < MaxEntries
    /\ catalog' = [catalog EXCEPT ![k] = h]
    /\ UNCHANGED <<nodes, stream, shown>>

Next ==
    \/ Connect \/ Unmount
    \/ \E d \in 1..Len(nodes), name \in Names : Create(d, name)
    \/ \E i \in 1..Len(nodes), h \in Hash : WriteBack(i, h)
    \/ \E d \in 1..Len(nodes) : OpenDir(d)
    \/ \E n \in 1..(Len(nodes) + 1) : ReadDir(n)
    \/ CloseDir
    \/ \E k \in Key, h \in Hash : AgentIngests(k, h)

Spec == Init /\ [][Next]_vars

-----------------------------------------------------------------------------
\* Every variable keeps its type, and the nodes are a tree: parent and children
\* agree, and every chain of parents ends at the root, or full_path would not
\* return.
TreeTypeOK ==
    /\ catalog \in [Key -> Hash \cup {None}]
    /\ shown \in [Key -> Hash \cup {None}]
    /\ nodes \in Seq(Node)
    /\ \A i \in 2..Len(nodes) :
         /\ nodes[i].parent \in Dirs
         /\ nodes[i].parent < i
         /\ Cardinality({k \in 1..Len(nodes[nodes[i].parent].children) :
                            nodes[nodes[i].parent].children[k] = i}) = 1
    /\ \A i \in 1..Len(nodes) : \A c \in Range(nodes[i].children) :
         c \in 2..Len(nodes) /\ nodes[c].parent = i
    /\ stream # None => stream.dir \in Dirs

\* A file that is opened by a path is written back to that path, also where
\* several entries compete for a name.  (connect, lookup, full_path.)
ResolvesHome ==
    \A k \in Key : Mounted /\ Resolve(k.comps) \in Files =>
        FullPath(Resolve(k.comps)) = [abs |-> TRUE, comps |-> k.comps]

\* No other entry has the path of k, lies below it, or has it below.
Unambiguous(k, cat) ==
    /\ k.comps # <<>>
    /\ \A j \in Present(cat) \ {k} : j.comps # <<>> =>
         ~IsPrefix(j.comps, k.comps) /\ ~IsPrefix(k.comps, j.comps)

\* The mount serves every unambiguous entry of its catalog under the entry's
\* path, in whatever order the server listed the entries, next to whatever
\* other entries, and after whatever edits and new files; what was edited
\* through the mount is served as edited, also by the next mount.  (connect,
\* lookup, create, flush_bytes.)
ServesItsEntries ==
    \A k \in Present(shown) : Unambiguous(k, shown) =>
        /\ Resolve(k.comps) \in Files
        /\ nodes[Resolve(k.comps)].hash = shown[k]

\* The entries of a volume that agents fill with absolute paths, none of them
\* both a file and a directory.
Plain(cat) == \A k \in Present(cat) : k.abs /\ Unambiguous(k, cat)

\* A mount of such a volume keeps it so: no file it creates or writes back makes
\* two entries compete for a name.  (create, full_path.)
MountStaysPlain ==
    [][Mounted /\ Mounted' /\ Plain(shown) => Plain(shown')]_vars

\* A directory stream that is read in any number of requests lists no entry
\* twice and misses no child that was there when it was opened, although files
\* are created in between.  (readdir.)
ListedOnce ==
    stream # None =>
        /\ IsInjective(stream.seen)
        /\ AtEnd => {<<"child", c>> : c \in stream.had} \subseteq Range(stream.seen)
=============================================================================
