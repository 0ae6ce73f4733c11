----------------------------- MODULE MountableFS -----------------------------
(***************************************************************************)
(* MountableFileSystem (src/src/backend/MountableFileSystem.ts), which     *)
(* sends a call to the file system that is mounted nearest, and moves a    *)
(* file from one to another by reading, writing and removing it.  The      *)
(* calls are the node API's, of which it is the root.                      *)
(***************************************************************************)
EXTENDS FolderAdapter

CONSTANTS
  RootFs,       \* the store that has the directories above the mount points
  MountPoints,  \* bound: where is mounted
  Suffix,       \* <<n, m, r>>: the string n begins the name m, and r is the rest
  Size,         \* the length of a path as a string: /a is 2 long
  Written,      \* bound: what is written, but by renames
  MaxNodes      \* bound: directories and files when one more is made

ASSUME MountAssumption ==
  /\ RootFs \in Stores /\ MountPoints \subseteq Paths
  /\ Size \in [Paths -> Nat] /\ MaxNodes \in Nat /\ Written \subseteq Contents
  /\ \A f \in Adapters : Wrapped[f] # RootFs  \* which nobody else has

VARIABLES
  mntMap,     \* what is mounted, by mount point
  mountList,  \* the mount points, longest first
  moving,     \* the rename between file systems that is under way
  mountsKept  \* history: no mount point lost its directory in RootFs

mountVars == <<trees, made, mntMap, mountList, moving, mountsKept>>

Mounts == DOMAIN mntMap
NotMoving == [at |-> "none", old |-> <<>>, new |-> <<>>, data |-> Empty, safe |-> FALSE]

----------------------------------------------------------------------------
(* _getFs compares strings: the mount point /m is found for /mx too, and its
   file system is asked for x. *)
BeginsWithin(m, p) ==
  /\ m # <<>> /\ Len(m) <= Len(p) /\ Front(m) = SubSeq(p, 1, Len(m) - 1)
  /\ \E s \in Suffix : s[1] = Last(m) /\ s[2] = p[Len(m)]
(* The pairs are listed so that TLC computes them once. *)
StringPrefixes ==
  {<<mp[1], mp[2]>> : mp \in {mp \in Paths \X Paths : IsPrefix(mp[1], mp[2]) \/ BeginsWithin(mp[1], mp[2])}}
StringPrefix(m, p) == <<m, p>> \in StringPrefixes

(* A string that begins another one is shorter. *)
ASSUME SizeAssumption == \A mp \in StringPrefixes : mp[1] # mp[2] => Size[mp[1]] < Size[mp[2]]

Rests ==
  [mp \in StringPrefixes |->
     LET m == mp[1]
         p == mp[2]
         below == SubSeq(p, Len(m) + 1, Len(p))
     IN IF IsPrefix(m, p) THEN Asked(below, TRUE)
        ELSE LET s == CHOOSE s \in Suffix : s[1] = Last(m) /\ s[2] = p[Len(m)]
             IN Asked(<<s[3]>> \o below, FALSE)]

(* The mount point that serves path p, the first of the list, and where. *)
Found(p) == {i \in DOMAIN mountList : StringPrefix(mountList[i], p)}
GetFs(p) ==
  IF Found(p) = {} THEN [mount |-> <<>>, fs |-> RootFs, place |-> Place(RootFs, Asked(p, TRUE))]
  ELSE LET m == mountList[Min(Found(p))]
       IN [mount |-> m, fs |-> mntMap[m], place |-> Place(mntMap[m], Rests[<<m, p>>])]

Node(p) == NodeAt(GetFs(p).place)
Exists(p) == Node(p) # Absent
ContainsMountPt(p) == \E m \in Mounts : StringPrefix(p, m)

(* readdir: what the file system has, and what RootFs has, mount points
   above all. *)
(* mutant: RootFs is only asked when the file system has no such directory *)
ListingOfOne(p) ==
  IF Node(p) = Dir THEN ChildrenAt(GetFs(p).place)
  ELSE ChildrenAt(Place(RootFs, Asked(p, TRUE)))
MergedListing(p) == ChildrenAt(GetFs(p).place) \union ChildrenAt(Place(RootFs, Asked(p, TRUE)))

----------------------------------------------------------------------------
(* mount and umount *)

Ancestors(p) == {q \in Paths : q # <<>> /\ IsPrefix(q, p)}

(* mkdirpSync, in RootFs: what is missing on the way to p; none of it if
   there is a file in its way, none if p is a file. *)
Mkdirp(t, p) == [q \in Paths |-> IF q \in Ancestors(p) /\ t[q] = Absent THEN Dir ELSE t[q]]
CanMkdirp(t, p) == t[p] # Absent \/ \A q \in Ancestors(p) : t[q] \in {Absent, Dir}

(* mutant: in the order of the mounts *)
InsertedLast(list, m) == Append(list, m)
Inserted(list, m) ==
  LET i == CHOOSE i \in 1 .. Len(list) + 1 : \A j \in DOMAIN list : j < i <=> Size[list[j]] >= Size[m]
  IN InsertAt(list, i, m)

Mount(m, f) ==
  /\ m \notin Mounts /\ f \in made \ {RootFs}
  /\ CanMkdirp(trees[RootFs], m)
  /\ trees' = [trees EXCEPT ![RootFs] = Mkdirp(@, m)]
  /\ mntMap' = [q \in Mounts \union {m} |-> IF q = m THEN f ELSE mntMap[q]]
  /\ mountList' = Inserted(mountList, m)
  /\ mountsKept' = (mountsKept /\ ~ IsFileAt(trees[RootFs], m))
  /\ UNCHANGED made

(* umount, which goes up and removes directories while they are empty, those
   of other mount points too. *)
Vacated(t, m) ==
  {q \in Ancestors(m) : IsDirAt(t, m) /\ \A r \in Below(q) : t[r] # Absent => IsPrefix(r, m)}

Umount(m) ==
  /\ m \in Mounts
  /\ mntMap' = [q \in Mounts \ {m} |-> mntMap[q]]
  /\ mountList' = RemoveAt(mountList, CHOOSE i \in DOMAIN mountList : mountList[i] = m)
  /\ trees' = [trees EXCEPT ![RootFs] = [q \in Paths |-> IF q \in Vacated(@, m) THEN Absent ELSE @[q]]]
  /\ mountsKept' = (mountsKept /\ Mounts \cap Vacated(trees[RootFs], m) \subseteq {m})
  /\ UNCHANGED made

----------------------------------------------------------------------------
(* The calls.  One that is refused changes nothing, and is left out. *)

Present == {sq \in Stores \X Paths : sq[2] # <<>> /\ trees[sq[1]][sq[2]] # Absent}

(* The tree and the path a call for p ends up at. *)
TreeOf(p) == trees[GetFs(p).place.store]
PathOf(p) == GetFs(p).place.path

Forward(p, allowed, node) ==
  LET place == GetFs(p).place
  IN /\ place # Nowhere /\ allowed
     /\ trees' = [trees EXCEPT ![place.store] = With(@, place.path, node)]
     /\ UNCHANGED <<made, mntMap, mountList, mountsKept>>

Mkdir(p) == Cardinality(Present) < MaxNodes /\ Forward(p, CanCreate(TreeOf(p), PathOf(p)), Dir)
CanWrite(t, q) == CanCreate(t, q) \/ IsFileAt(t, q)
WriteFile(p, c) ==
  /\ Cardinality(Present) < MaxNodes \/ Exists(p)
  /\ Forward(p, CanWrite(TreeOf(p), PathOf(p)), File(c))
Unlink(p) == Forward(p, CanUnlink(TreeOf(p), PathOf(p)), Absent)
Rmdir(p) == ~ ContainsMountPt(p) /\ Forward(p, CanRmdir(TreeOf(p), PathOf(p)), Absent)

(* The same file system for both: it renames, mount points or not. *)
RenameWithin(old, new) ==
  LET from == GetFs(old)
      to == GetFs(new)
      s == from.place.store
  IN /\ from.fs = to.fs /\ Nowhere \notin {from.place, to.place}
     /\ CanRename(trees[s], from.place.path, to.place.path)
     /\ trees' = [trees EXCEPT ![s] = Renamed(@, from.place.path, to.place.path)]
     /\ mountsKept' = (mountsKept /\ ~ (s = RootFs /\ \E m \in Mounts : IsPrefix(old, m) \/ IsPrefix(new, m)))
     /\ UNCHANGED <<made, mntMap, mountList>>

----------------------------------------------------------------------------
(* Different ones: readFile, writeFile and unlink, of the node API, each with
   the file system that serves the path then. *)

Goes(where) == moving' = [moving EXCEPT !.at = where]
Answers == moving' = NotMoving

RenameBetween(old, new) ==
  /\ moving.at = "none"
  /\ GetFs(old).fs # GetFs(new).fs
  /\ Node(old).type = "file"
  /\ moving' = [at |-> "open", old |-> old, new |-> new, data |-> Node(old).bytes,
                safe |-> GetFs(old).place # GetFs(new).place]
  /\ UNCHANGED <<trees, made, mntMap, mountList, mountsKept>>

(* writeFile opens, which truncates, and stores what it wrote when it closes. *)
OpenNew ==
  /\ moving.at = "open"
  /\ Cardinality(Present) < MaxNodes \/ Exists(moving.new)
  /\ Forward(moving.new, CanWrite(TreeOf(moving.new), PathOf(moving.new)), File(Empty))
  /\ Goes("close")
CloseNew ==
  /\ moving.at = "close"
  /\ Forward(moving.new, IsFileAt(TreeOf(moving.new), PathOf(moving.new)), File(moving.data))
  /\ Goes("unlink")
UnlinkMoved ==
  /\ moving.at = "unlink"
  /\ Forward(moving.old, CanUnlink(TreeOf(moving.old), PathOf(moving.old)), Absent)
  /\ Answers

(* mutant: the error of writeFile is not looked at *)
RenameGoesOn ==
  /\ moving.at \in {"open", "close", "unlink"}
  /\ IF moving.at = "unlink" THEN Answers ELSE Goes("unlink")
  /\ UNCHANGED <<trees, made, mntMap, mountList, mountsKept>>
RenameFails ==
  /\ moving.at \in {"open", "close", "unlink"}
  /\ Answers
  /\ UNCHANGED <<trees, made, mntMap, mountList, mountsKept>>

----------------------------------------------------------------------------
MountInit ==
  /\ FSInit
  /\ mntMap = [m \in {} |-> RootFs] /\ mountList = <<>>
  /\ moving = NotMoving /\ mountsKept = TRUE

MountCalls ==
  \/ \E f \in Adapters : Adapt(f) /\ UNCHANGED <<mntMap, mountList, mountsKept>>
  \/ \E m \in MountPoints, f \in FileSystems : Mount(m, f)
  \/ \E m \in Mounts : Umount(m)
  \/ \E p \in Paths : Mkdir(p) \/ Unlink(p) \/ Rmdir(p) \/ \E c \in Written : WriteFile(p, c)
  \/ \E old, new \in Paths : RenameWithin(old, new)

(* What others do to the two paths, or to what is mounted, is theirs. *)
Meanwhile ==
  moving' = [moving EXCEPT !.safe =
               @ /\ mntMap' = mntMap /\ \A p \in {moving.old, moving.new} : Node(p)' = Node(p)]

Renames ==
  \/ \E old, new \in Paths : RenameBetween(old, new)
  \/ OpenNew \/ CloseNew \/ UnlinkMoved \/ RenameFails

(* Bound: nothing is called after a mount point lost its directory, and not  *)
(* after what disturbed a rename until that has ended.                       *)
MountNext ==
  \/ mountsKept /\ (moving.at # "none" => moving.safe) /\ MountCalls /\ Meanwhile
  \/ mountsKept /\ Renames

MountSpec == MountInit /\ [][MountNext]_mountVars

----------------------------------------------------------------------------
(* "Ensures that we scan the most specific mount points for a match first,   *)
(* which lets us nest mount points": what serves a path is mounted below     *)
(* all mount points that are above the path, or is the last of them; the     *)
(* list and the map have the same mount points, each once.                   *)
NearestServes ==
  /\ IsInjective(mountList) /\ ToSet(mountList) = Mounts
  /\ \A p \in Paths, m \in Mounts : IsPrefix(m, p) => IsPrefix(m, GetFs(p).mount)

(* What is there is listed: a name that can be looked up is in the listing   *)
(* of its directory, whichever file systems have the two.  Not so a path     *)
(* that only begins like a mount point.                                      *)
Plain(p) == IsPrefix(GetFs(p).mount, p)
ThereIsListed ==
  mountsKept => \A p \in Paths \ {<<>>} : Exists(p) /\ Plain(p) => Last(p) \in MergedListing(Parent(p))

(* A file that moves from one file system to another is whole under one of   *)
(* its two paths, through every failure, if these are two files and nobody   *)
(* else changes them.                                                        *)
RenameLosesNothing ==
  [][moving.at # "none" /\ moving.safe /\ (moving' = NotMoving \/ moving'.safe)
       => \E p \in {moving.old, moving.new}, node \in {File(moving.data)} : Node(p)' = node]_mountVars

----------------------------------------------------------------------------
(* "Mount points are all defined in the root FS." (readdir)  Not so: the       *)
(* README tells how TLC finds this violated.                                 *)
MountPointsInRoot == \A m \in Mounts : IsDirAt(trees[RootFs], m)
=============================================================================
