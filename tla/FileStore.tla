----------------------------- MODULE FileStore -----------------------------
(***************************************************************************)
(* What pintos2/src/filesys promises: named files of a fixed size that     *)
(* start out as zeros, change only where somebody writes to them, live on  *)
(* under their open handles after they are unlinked, and that a power      *)
(* failure leaves alone.  A name has one file, until memory runs out while *)
(* a file is created.                                                      *)
(***************************************************************************)
EXTENDS Integers, Sequences, FiniteSets

CONSTANTS Names, Ids, Handles, NoId

VARIABLES
    links,    \* the names in use, each with the file it stands for
    content,  \* the bytes of every file that has a name or a handle
    opens,    \* the file each handle stands for, or NoId
    denied,   \* handles that keep their file from being written
    starved   \* how often memory has run out while a file was created

Live(lk, op) == {l[2] : l \in lk} \union ({op[h] : h \in Handles} \ {NoId})
Keep(lk, op) == content' = [i \in Live(lk, op) |-> content[i]]
InUse == {l[1] : l \in links}

SInit ==
    /\ links = {} /\ content = << >>
    /\ opens = [h \in Handles |-> NoId]
    /\ denied = {} /\ starved = 0

\* A new file of zeros with name n, where the names in gone are lost.
Adds(n, i, gone) ==
    /\ links' = (links \ gone) \union {<<n, i>>}
    /\ DOMAIN content' = Live(links', opens)
    /\ \A j \in DOMAIN content' \ {i} : content'[j] = content[j]
    /\ \A k \in DOMAIN content'[i] : content'[i][k] = 0
    /\ UNCHANGED <<opens, denied>>

Create == \E n \in Names \ InUse, i \in Ids \ DOMAIN content :
    Adds(n, i, {}) /\ UNCHANGED starved

\* For lack of memory the name is in use already, or takes the place of another one.
CreateStarved == \E n \in Names, i \in Ids \ DOMAIN content :
    /\ Adds(n, i, {}) \/ \E l \in links : Adds(n, i, {l})
    /\ starved' = starved + 1

Unlink == \E l \in links :
    /\ links' = links \ {l}
    /\ Keep(links', opens)
    /\ UNCHANGED <<opens, denied, starved>>

Open == \E h \in Handles, i \in DOMAIN content :
    /\ opens[h] = NoId
    /\ opens' = [opens EXCEPT ![h] = i]
    /\ UNCHANGED <<links, content, denied, starved>>

Close == \E h \in Handles :
    /\ opens[h] # NoId
    /\ opens' = [opens EXCEPT ![h] = NoId]
    /\ denied' = denied \ {h}
    /\ Keep(links, opens')
    /\ UNCHANGED <<links, starved>>

\* Somebody who has the file open changes bytes of it; its length stays.
Write == \E h \in Handles :
    /\ opens[h] # NoId
    /\ \A g \in denied : opens[g] # opens[h]
    /\ DOMAIN content' = DOMAIN content
    /\ \A i \in DOMAIN content : /\ DOMAIN content'[i] = DOMAIN content[i]
                                 /\ i # opens[h] => content'[i] = content[i]
    /\ UNCHANGED <<links, opens, denied, starved>>

DenyWrite == \E h \in Handles \ denied :
    /\ opens[h] # NoId
    /\ denied' = denied \union {h}
    /\ UNCHANGED <<links, content, opens, starved>>

AllowWrite == \E h \in denied :
    /\ denied' = denied \ {h}
    /\ UNCHANGED <<links, content, opens, starved>>

PowerFailure ==
    /\ opens' = [h \in Handles |-> NoId]
    /\ denied' = {}
    /\ Keep(links, opens')
    /\ UNCHANGED <<links, starved>>

SNext == Create \/ CreateStarved \/ Unlink \/ Open \/ Close \/ Write \/ DenyWrite
         \/ AllowWrite \/ PowerFailure

SSpec == SInit /\ [][SNext]_<<links, content, opens, denied, starved>>
=============================================================================
