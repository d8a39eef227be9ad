------------------------------ MODULE DirScan ------------------------------
(* ls, rm -r and cp -r (src/packages/coreutils/src) walk a directory that    *)
(* they or others change, a page of fd_readdir at a time: SyscallHandler     *)
(* lists the directory anew on each call and skips as many entries as the    *)
(* cookie says, and the WASI shim puts as many of the rest into the buffer   *)
(* as it has room for, of which the program uses the whole ones.             *)
(*                                                                           *)
(* Directories list their entries in the order of MemoryFs's children maps,  *)
(* that is, as they were made.  What files hold is left out, and so are      *)
(* renames: the others create and remove.                                    *)
EXTENDS Integers, Sequences, SequencesExt

CONSTANTS
    Name,       \* names of entries
    NameLen,    \* their lengths
    BufLen,     \* the programs' buffer (4096)
    Operands,   \* the paths the commands are given
    Path,       \* the paths the others work on
    MaxChanges  \* bound on what the others do

ASSUME DirScanAssumption ==
    /\ NameLen \in [Name -> Nat \ {0}]
    /\ BufLen \in Nat
    /\ Operands \subseteq Seq(Name)
    /\ Path \subseteq Seq(Name)
    /\ MaxChanges \in Nat

Entry == [name : Name, type : {"file", "directory"}]

VARIABLES
    listing,  \* directory -> its entries, in order
    changes,  \* what the others have done so far
    others,   \* history: "added" and "removed", since the command started
    before,   \* history: listing when it started
    cmd,      \* the command, "none" before there is one
    src,      \* its operand
    dest,     \* cp's second
    pc,       \* where it stands
    stack,    \* directories to visit
    post,     \* post_dirs
    scan,     \* the open directory: its path, whether it was removed, and the cookie
    page,     \* entries read and not dealt with
    printed,  \* what ls has written
    result    \* "none", "ok", "failed" or "trapped"

othersVars  == <<changes, others>>
operands    == <<before, cmd, src, dest>>
walkVars    == <<stack, post, scan, page>>
commandVars == <<pc, walkVars, printed, result>>
vars == <<listing, othersVars, operands, commandVars>>

NoScan == [dir |-> << >>, gone |-> FALSE, cookie |-> 0]

Init ==
    /\ listing = [p \in {<< >>} |-> << >>]
    /\ changes = 0 /\ others = {}
    /\ before = listing
    /\ cmd = "none" /\ src = << >> /\ dest = << >>
    /\ pc = "idle"
    /\ stack = << >> /\ post = << >> /\ scan = NoScan /\ page = << >>
    /\ printed = << >>
    /\ result = "none"

-----------------------------------------------------------------------------
(* The file system.                                                          *)

TypeIn(tree, p) ==
    IF p \in DOMAIN tree THEN "directory"
    ELSE IF p # << >> /\ Front(p) \in DOMAIN tree
            /\ \E i \in DOMAIN tree[Front(p)] : tree[Front(p)][i].name = Last(p)
         THEN "file" ELSE "none"

TypeOf(p) == TypeIn(listing, p)

Child(dir, name) == Append(dir, name)

CanMake(p) == TypeOf(p) = "none" /\ p # << >> /\ TypeOf(Front(p)) = "directory"

Listed(p, type) == [listing EXCEPT ![Front(p)] = Append(@, [name |-> Last(p), type |-> type])]

MakesFile(p) == listing' = Listed(p, "file")
MakesDir(p) ==
    listing' = [d \in DOMAIN listing \union {p} |-> IF d = p THEN << >> ELSE Listed(p, "directory")[d]]

Removes(p) ==
    \E i \in DOMAIN listing[Front(p)] :
        /\ listing[Front(p)][i].name = Last(p)
        /\ listing' = [d \in DOMAIN listing \ {p} |->
                          IF d = Front(p) THEN RemoveAt(listing[d], i) ELSE listing[d]]

AlwaysEmptied(p) == TRUE
Emptied(p) == listing[p] = << >>

CanUnlink(p) == TypeOf(p) = "file"
CanRmdir(p)  == p # << >> /\ TypeOf(p) = "directory" /\ Emptied(p)

-----------------------------------------------------------------------------
(* The others, before the command and while it runs; afterwards is of no     *)
(* interest.                                                                 *)

Changes(what) ==
    /\ changes < MaxChanges /\ result = "none"
    /\ changes' = changes + 1
    /\ others' = IF cmd = "none" THEN others ELSE others \union {what}
    /\ UNCHANGED <<operands, pc, stack, post, page, printed, result>>

OtherCreates(p) ==
    /\ CanMake(p)
    /\ MakesFile(p) \/ MakesDir(p)
    /\ Changes("added")
    /\ UNCHANGED scan

\* A handle stays with the directory it was opened on, which lists nothing any more.
OtherRemoves(p) ==
    /\ CanUnlink(p) \/ CanRmdir(p)
    /\ Removes(p)
    /\ Changes("removed")
    /\ scan' = IF p = scan.dir THEN [scan EXCEPT !.gone = TRUE] ELSE scan

-----------------------------------------------------------------------------
(* fd_readdir.                                                               *)

HeaderLen == 24

Size(entries) ==
    LET upTo[n \in 0..Len(entries)] ==
            IF n = 0 THEN 0 ELSE upTo[n - 1] + HeaderLen + NameLen[entries[n].name]
    IN  upTo[Len(entries)]

SkippedOneMore == scan.cookie + 1
Skipped == scan.cookie

Rest == IF scan.gone THEN << >> ELSE SubSeq(listing[scan.dir], Skipped + 1, Len(listing[scan.dir]))

\* The entries that are whole in the buffer.
WholeOf(entries) ==
    SubSeq(entries, 1, CHOOSE n \in 0..Len(entries) :
                           /\ Size(SubSeq(entries, 1, n)) <= BufLen
                           /\ n = Len(entries) \/ Size(SubSeq(entries, 1, n + 1)) > BufLen)

\* The scan ends with a page on which nothing is whole; the slip: with an empty one.
NothingListed  == Rest = << >>
NothingWhole == WholeOf(Rest) = << >>

Opens(p) == scan' = [NoScan EXCEPT !.dir = p]

-----------------------------------------------------------------------------
(* The commands.                                                             *)

Starts(c, p, q) ==
    /\ cmd = "none"
    /\ cmd' = c /\ src' = p /\ dest' = q
    /\ before' = listing
    /\ pc' = "start"
    /\ UNCHANGED <<listing, othersVars, walkVars, printed, result>>

\* cp into a directory below its source never ends, and is not asked for.
Commands ==
    \E p \in Operands :
        \/ Starts("ls", p, << >>)
        \/ Starts("rm", p, << >>)
        \/ \E q \in Operands : ~IsStrictPrefix(p, q) /\ Starts("cp", p, q)

Ends(how) == pc' = "done" /\ result' = how

\* What cp's error returns come to: exit 1, as its main says, or a trap, where the build goes
\* through an unreachable stub (docs/ROADMAP.md:211 and 224, cp.test.ts:38-42).
CpFails == Ends("failed") \/ Ends("trapped")

Untouched == UNCHANGED <<listing, othersVars, operands>>

LsOpens ==
    /\ cmd = "ls" /\ pc = "start"
    /\ \/ TypeOf(src) = "directory" /\ Opens(src) /\ pc' = "list" /\ UNCHANGED result
       \/ TypeOf(src) # "directory" /\ Ends("failed") /\ UNCHANGED scan
    /\ Untouched /\ UNCHANGED <<stack, post, page, printed>>

\* removePath, and cp's probe: a file is one call, or a copy, and a directory is walked.
RmUnlinks ==
    /\ cmd = "rm" /\ pc = "start"
    /\ \/ CanUnlink(src) /\ Removes(src) /\ Ends("ok") /\ UNCHANGED stack
       \/ TypeOf(src) = "none" /\ Ends("failed") /\ UNCHANGED <<listing, stack>>
       \/ /\ TypeOf(src) = "directory"
          /\ stack' = <<src>> /\ pc' = "pop"
          /\ UNCHANGED <<listing, result>>
    /\ UNCHANGED <<othersVars, operands, post, scan, page, printed>>

CpProbes ==
    /\ cmd = "cp" /\ pc = "start"
    /\ \/ TypeOf(src) = "file" /\ pc' = "source" /\ UNCHANGED <<stack, result>>
       \/ TypeOf(src) = "none" /\ CpFails /\ UNCHANGED stack
       \/ TypeOf(src) = "directory" /\ stack' = <<src>> /\ pc' = "pop" /\ UNCHANGED result
    /\ Untouched /\ UNCHANGED <<post, scan, page, printed>>

\* stack.pop, and the directory is opened.
RmPops ==
    /\ cmd = "rm" /\ pc = "pop" /\ stack # << >>
    /\ stack' = Front(stack)
    /\ post' = Append(post, Last(stack))
    /\ \/ TypeOf(Last(stack)) = "directory" /\ Opens(Last(stack)) /\ pc' = "list" /\ UNCHANGED result
       \/ TypeOf(Last(stack)) # "directory" /\ Ends("failed") /\ UNCHANGED scan
    /\ Untouched /\ UNCHANGED <<page, printed>>

\* pair.dest.
Dest(p) == dest \o SubSeq(p, Len(src) + 1, Len(p))

\* What is there already is taken for a directory.
CpMakesDir ==
    LET p == Dest(Last(stack))
    IN  /\ cmd = "cp" /\ pc = "pop" /\ stack # << >>
        /\ \/ CanMake(p) /\ MakesDir(p) /\ pc' = "open" /\ UNCHANGED result
           \/ TypeOf(p) # "none" /\ pc' = "open" /\ UNCHANGED <<listing, result>>
           \/ TypeOf(p) = "none" /\ ~CanMake(p) /\ CpFails /\ UNCHANGED listing
        /\ UNCHANGED <<othersVars, operands, walkVars, printed>>

CpOpens ==
    /\ cmd = "cp" /\ pc = "open"
    /\ stack' = Front(stack)
    /\ \/ TypeOf(Last(stack)) = "directory" /\ Opens(Last(stack)) /\ pc' = "list" /\ UNCHANGED result
       \/ TypeOf(Last(stack)) # "directory" /\ CpFails /\ UNCHANGED scan
    /\ Untouched /\ UNCHANGED <<post, page, printed>>

\* One fd_readdir; the directory is closed when it brings nothing.
Lists ==
    /\ pc = "list"
    /\ ~NothingWhole
    /\ page' = WholeOf(Rest)
    /\ pc' = "entry"
    /\ Untouched /\ UNCHANGED <<stack, post, scan, printed, result>>

ListsNone ==
    /\ pc = "list"
    /\ NothingWhole
    /\ IF cmd = "ls" THEN Ends("ok") ELSE pc' = "pop" /\ UNCHANGED result
    /\ scan' = NoScan
    /\ Untouched /\ UNCHANGED <<stack, post, page, printed>>

\* cookie = ent.d_next, and i = name_end.
Advances ==
    /\ page' = Tail(page)
    /\ scan' = [scan EXCEPT !.cookie = @ + 1]
    /\ pc' = IF Len(page) = 1 THEN "list" ELSE "entry"

AtEntry(command, type) == cmd = command /\ pc = "entry" /\ page # << >> /\ Head(page).type = type

CurrentAtRoot == <<Head(page).name>>
Current == Child(scan.dir, Head(page).name)

LsPrints ==
    /\ cmd = "ls" /\ pc = "entry" /\ page # << >>
    /\ printed' = printed \o page
    /\ page' = << >>
    /\ scan' = [scan EXCEPT !.cookie = @ + Len(page)]
    /\ pc' = "list"
    /\ Untouched /\ UNCHANGED <<stack, post, result>>

Pushes ==
    /\ AtEntry("rm", "directory") \/ AtEntry("cp", "directory")
    /\ stack' = Append(stack, Current)
    /\ Advances
    /\ Untouched /\ UNCHANGED <<post, printed, result>>

RmUnlinksEntry ==
    /\ AtEntry("rm", "file")
    /\ \/ CanUnlink(Current) /\ Removes(Current) /\ Advances /\ UNCHANGED result
       \/ ~CanUnlink(Current) /\ Ends("failed") /\ UNCHANGED <<listing, page, scan>>
    /\ UNCHANGED <<othersVars, operands, stack, post, printed>>

CpTakesFile ==
    /\ AtEntry("cp", "file")
    /\ pc' = "source"
    /\ Untouched /\ UNCHANGED <<walkVars, printed, result>>

\* copyFile, of the entry or of the operand: the source is opened, then the destination.
Copied == IF page = << >> THEN src ELSE Current

CpOpensSource ==
    /\ pc = "source"
    /\ IF TypeOf(Copied) = "file" THEN pc' = "copy" /\ UNCHANGED result ELSE CpFails
    /\ Untouched /\ UNCHANGED <<walkVars, printed>>

CpCopies ==
    LET p == Dest(Copied)
    IN  /\ pc = "copy"
        /\ \/ /\ CanMake(p) \/ TypeOf(p) = "file"
              /\ IF CanMake(p) THEN MakesFile(p) ELSE UNCHANGED listing
              /\ \/ page # << >> /\ Advances /\ UNCHANGED result
                 \/ page = << >> /\ Ends("ok") /\ UNCHANGED <<page, scan>>
           \/ /\ ~CanMake(p) /\ TypeOf(p) # "file"
              /\ CpFails
              /\ UNCHANGED <<listing, page, scan>>
        /\ UNCHANGED <<othersVars, operands, stack, post, printed>>

\* rm's second loop, from the last directory visited to the first.
IsLast == Len(post) = 1
NextToRemoveFirst == Head(post)
NextToRemove == Last(post)

RmRmdirs ==
    /\ cmd = "rm" /\ pc = "pop" /\ stack = << >>
    /\ post' = Front(post)
    /\ \/ /\ CanRmdir(NextToRemove) /\ Removes(NextToRemove)
          /\ IF IsLast THEN Ends("ok") ELSE UNCHANGED <<pc, result>>
       \/ ~CanRmdir(NextToRemove) /\ Ends("failed") /\ UNCHANGED listing
    /\ UNCHANGED <<othersVars, operands, stack, scan, page, printed>>

CpEnds ==
    /\ cmd = "cp" /\ pc = "pop" /\ stack = << >>
    /\ Ends("ok")
    /\ Untouched /\ UNCHANGED <<walkVars, printed>>

Ls == LsOpens \/ LsPrints
Rm == RmUnlinks \/ RmPops \/ RmUnlinksEntry \/ RmRmdirs
Cp == CpProbes \/ CpMakesDir \/ CpOpens \/ CpTakesFile \/ CpOpensSource \/ CpCopies \/ CpEnds

CommandRuns == Ls \/ Rm \/ Cp \/ Lists \/ ListsNone \/ Pushes

OthersRun == \E p \in Path : OtherCreates(p) \/ OtherRemoves(p)

Next == OthersRun \/ Commands \/ CommandRuns

Spec == Init /\ [][Next]_vars

\* The program runs on; nobody else has to.
FairSpec == Spec /\ WF_vars(CommandRuns)

-----------------------------------------------------------------------------
(* Properties.                                                               *)

\* The types, and the listings are a tree: a name is listed once, a directory is one that
\* its parent lists as a directory, and what is listed as one is there.
TypeInvariant ==
    /\ \A d \in DOMAIN listing :
          /\ d \in Seq(Name) /\ listing[d] \in Seq(Entry)
          /\ \A i, j \in DOMAIN listing[d] : listing[d][i].name = listing[d][j].name => i = j
          /\ d # << >> => /\ Front(d) \in DOMAIN listing
                          /\ Contains(listing[Front(d)], [name |-> Last(d), type |-> "directory"])
          /\ \A i \in DOMAIN listing[d] :
                listing[d][i].type = "directory" => Child(d, listing[d][i].name) \in DOMAIN listing
    /\ changes \in 0..MaxChanges /\ others \subseteq {"added", "removed"}
    /\ cmd \in {"none", "ls", "rm", "cp"} /\ src \in Seq(Name) /\ dest \in Seq(Name)
    /\ pc \in {"idle", "start", "pop", "open", "list", "entry", "source", "copy", "done"}
    /\ stack \in Seq(Seq(Name)) /\ post \in Seq(Seq(Name))
    /\ scan \in [dir : Seq(Name), gone : BOOLEAN, cookie : Nat]
    /\ page \in Seq(Entry) /\ printed \in Seq(Entry)
    /\ result \in {"none", "ok", "failed", "trapped"}
    /\ pc = "done" <=> result # "none"

EntryFits(e) == HeaderLen + NameLen[e.name] <= BufLen
AllFit(tree) == \A d \in DOMAIN tree : \A i \in DOMAIN tree[d] : EntryFits(tree[d][i])

\* However many pages it takes, and whatever is added meanwhile, ls prints all that was there
\* when it started, once and in order, and after it nothing but what has been added; if no
\* entry goes and all fit the buffer.
ListedOnce ==
    (/\ cmd = "ls" /\ result = "ok"
     /\ "removed" \notin others /\ AllFit(listing))
        => (src \in DOMAIN before => IsPrefix(before[src], printed)) /\ IsPrefix(printed, listing[src])

\* When cp -r says it is done, all that was below the source when it started is at the
\* destination, the files as files, if nothing was removed and all names fit.  (An empty
\* directory may have found a file of its name there: cp takes EEXIST for a directory.)
CopyComplete ==
    (/\ cmd = "cp" /\ result = "ok"
     /\ "removed" \notin others /\ AllFit(listing))
        => /\ TypeOf(dest) # "none"
           /\ \A d \in DOMAIN before : \A i \in DOMAIN before[d] :
                 LET p == Child(d, before[d][i].name)
                 IN  IsPrefix(src, p) =>
                         \/ TypeOf(Dest(p)) = "file"
                         \/ before[d][i].type = "directory" /\ TypeOf(Dest(p)) = "directory"

\* rm -r with nobody else at work removes what there is, though it lists what it is
\* removing: provided each directory fits one page.  A second page would skip as many
\* entries as were unlinked, and rm would then not get the directory empty.
RmAlone ==
    (/\ cmd = "rm" /\ result = "failed"
     /\ others = {}
     /\ src # << >> /\ TypeIn(before, src) # "none")
        => \E d \in DOMAIN before : IsPrefix(src, d) /\ WholeOf(before[d]) # before[d]

\* The walks stay inside: rm removes nothing but what is below its operand and makes
\* nothing; cp makes nothing but what is below its destination and removes nothing; ls
\* changes nothing.
Outside(top) == \A p \in (DOMAIN listing \union DOMAIN listing') :
                    ~IsPrefix(top, p) =>
                        \A name \in Name : IsPrefix(top, Child(p, name))
                            \/ TypeIn(listing, Child(p, name)) = TypeIn(listing', Child(p, name))

StaysInside ==
    [][changes' = changes =>
          /\ cmd \in {"none", "ls"} => UNCHANGED listing
          /\ cmd = "rm" => Outside(src) /\ DOMAIN listing' \subseteq DOMAIN listing
          /\ cmd = "cp" => Outside(dest) /\ DOMAIN listing \subseteq DOMAIN listing']_vars

CpTrapped == cmd = "cp" /\ result = "trapped"

\* A command that is started exits, whatever the others do meanwhile and however long a name
\* is.  A cp that traps is taken out: docs/ROADMAP.md:224 says that its proc_join never returns.
WalkEnds == pc = "start" ~> (result \in {"ok", "failed"} \/ CpTrapped)
=============================================================================
