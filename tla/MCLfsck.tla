------------------------------ MODULE MCLfsck ------------------------------
(***************************************************************************)
(* Small devices for TLC: one metadata server, one or two object servers,  *)
(* tables of three slots and the slot past their end.                      *)
(***************************************************************************)
EXTENDS Lfsck, TLC

CONSTANTS m, o1, o2

\* FID number n of the metadata server, stripe index v in its version.
F(n, v) == [f_seq |-> 1, f_oid |-> n, f_ver |-> v]
MCFSeqs == {1}
MCFOids == 1 .. 4
MCFVers == 0 .. 1

\* '%x' prints three bits of an id: 10 is printed as 2.
MCOidLimit == 8
MCOiIds == {1, 2, 10}

lma(n) == [name |-> "lma", lma_self_fid |-> F(n, 0)]
link(ps) == [name |-> "link", good_magic |-> TRUE,
             lee_parent_fid |-> [k \in DOMAIN ps |-> [be |-> F(ps[k], 0)]]]
badlink == [name |-> "link", good_magic |-> FALSE]
obj(o, n) == [l_ost_idx |-> o, oi_seq |-> 1, oi_id |-> n]
lov(objs) == [name |-> "lov", lmm_magic |-> "v1", lmm_objects |-> objs]
comp(w, objs) == [name |-> "lov", lmm_magic |-> "comp", lmm_objects |-> objs, word |-> w]
fid(n, v) == [name |-> "fid", ff_parent |-> F(n, v)]
other == [name |-> "other"]

dir(xs) == [h_magic |-> TRUE, i_mode |-> "dir", dir_spins |-> FALSE, xattrs |-> xs]
spinning(xs) == [dir(xs) EXCEPT !.dir_spins = TRUE]
reg(xs) == [h_magic |-> TRUE, i_mode |-> "reg", dir_spins |-> FALSE, xattrs |-> xs]
special(xs) == [h_magic |-> TRUE, i_mode |-> "other", dir_spins |-> FALSE, xattrs |-> xs]
unused == [h_magic |-> FALSE, i_mode |-> "other", dir_spins |-> FALSE, xattrs |-> <<>>]

\* A table of four slots and the one past it; slot 0, which no scanner reads,
\* and the last two hold nothing, in the shorter form the last three.
Table(s1, s2, s3) == 0 :> unused @@ 1 :> s1 @@ 2 :> s2 @@ 3 :> s3 @@ 4 :> unused
Short(s1, s2) == 0 :> unused @@ 1 :> s1 @@ 2 :> s2 @@ 3 :> unused

\* Metadata tables: parents before their children; children first; the lma of a
\* parent after the last link; xattrs in another order, a file in two
\* directories and one whose parent is lost.
ParentsFirst == Table(dir(<<lma(1)>>),
                      reg(<<lma(2), lov(<<obj(o1, 1)>>), link(<<1>>)>>),
                      reg(<<lma(3), lov(<<obj(o1, 2)>>), link(<<1>>), other>>))
ChildrenFirst == Table(reg(<<link(<<3>>), lma(1), lov(<<obj(o1, 2)>>)>>),
                       special(<<other, lma(2), link(<<3>>)>>),
                       dir(<<lma(3), link(<<3>>)>>))
ParentLast == Table(reg(<<lma(2), link(<<1>>)>>), unused, dir(<<lma(1)>>))
Orphans == Table(reg(<<lma(1), link(<<4>>)>>),
                 dir(<<lma(2), lov(<<>>), link(<<2>>)>>),
                 reg(<<link(<<2, 1>>), lma(3)>>))
BadLink == Table(dir(<<lma(1), link(<<1>>)>>), reg(<<lma(2), badlink, lov(<<obj(o1, 1)>>)>>),
                 reg(<<lma(3), link(<<1>>)>>))
Spins == Table(dir(<<lma(1), link(<<1>>)>>), spinning(<<lma(2), link(<<1>>)>>),
               reg(<<lma(3), link(<<1>>)>>))

MCMdsTables == {ParentsFirst, ChildrenFirst, ParentLast, Orphans, BadLink, Spins}
MCMdsInodes == m :> 4

\* A metadata and an object server.  Objects in the order of the files and in
\* the other, the second stripe of a file, a composite layout.
Objects == Short(reg(<<lma(1), fid(2, 0)>>), reg(<<lma(2), fid(3, 0)>>))
Crossed == Short(reg(<<other, fid(1, 0), lma(2)>>), special(<<lma(3), fid(1, 1)>>))
TwoFiles(x, y) == Short(reg(<<lma(2), x, link(<<1>>)>>), reg(<<lma(3), y, link(<<1>>)>>))
Plain == TwoFiles(lov(<<obj(o1, 1)>>), lov(<<obj(o1, 2)>>))

\* Each metadata table beside an object server without objects, and one with two
\* files beside their objects.
NoObjects == Short(unused, unused)
Files == Table(reg(<<lma(2), lov(<<obj(o1, 1)>>), link(<<1>>)>>),
               reg(<<lma(3), lov(<<obj(o1, 2)>>), link(<<1>>)>>), unused)
MCRerunInodes == m :> 4 @@ o1 :> 3
MCRerunImages == {m :> t @@ o1 :> NoObjects : t \in MCMdsTables} \cup {m :> Files @@ o1 :> Objects}

\* Two object servers whose inode numbers in use differ.  A file whose first object
\* is lost while the other server has one of its id; a file whose first object's id
\* is printed as that of another file's, beside a directory that never ends; a
\* composite layout, one with no object and the second stripe of a file.
MCSideInodes == m :> 3 @@ o1 :> 3 @@ o2 :> 3
One(object) == Short(object, unused)
Two(object) == Short(unused, object)
IdElsewhere == m :> TwoFiles(lov(<<obj(o1, 1), obj(o2, 2)>>), lov(<<obj(o1, 2)>>))
                 @@ o1 :> One(reg(<<lma(2), fid(3, 0)>>)) @@ o2 :> Two(reg(<<lma(1), fid(1, 0)>>))
IdTooWide == m :> TwoFiles(lov(<<obj(o1, 10)>>), lov(<<obj(o2, 2)>>))
               @@ o1 :> One(spinning(<<lma(1)>>)) @@ o2 :> Two(reg(<<lma(2), fid(3, 0)>>))
OddLayouts == m :> TwoFiles(comp(2, <<obj(o1, 1)>>), lov(<<>>)) @@ o1 :> Crossed @@ o2 :> NoObjects
MCSideImages == {IdElsewhere, IdTooWide, OddLayouts}

=============================================================================
