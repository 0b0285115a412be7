--------------------------- MODULE WorkspaceFiles ---------------------------
(***************************************************************************)
(* The file tools (tools.rs, path_boundary.rs) of the runs that work in    *)
(* one workspace: file.read through one descriptor, file.write and         *)
(* file.edit by a temporary file that is renamed over the old one,         *)
(* search.text file by file. Other programs grow files in place, and the   *)
(* power may fail.                                                         *)
(***************************************************************************)
EXTENDS Naturals, Sequences, FiniteSets

CONSTANTS Calls,           \* tool calls that run side by side
          Paths,           \* workspace paths
          Old, New,        \* oldText and newText, of one byte each
          MaxReadBytes,    \* MAX_FILE_READ_BYTES
          MaxInodes, MaxFileFaults \* bounds: files ever made, and calls that fail

ASSUME FilesAssumption ==
    /\ Paths # {} /\ IsFiniteSet(Paths) /\ "torn" \notin {Old, New}
    /\ MaxReadBytes \in Nat \ {0} /\ MaxInodes \in Nat /\ MaxFileFaults \in Nat

VARIABLES inodes,     \* files: their bytes, synced or not, and who made them
          names,      \* the workspace: path -> inode
          durable,    \* the workspace as the disk has it for sure
          temporary,  \* inodes with a temporary name
          toolCall,       \* the tool calls
          outage,     \* the power has failed
          fileFaults
filesVars == <<inodes, names, durable, temporary, toolCall, outage, fileFaults>>

HalfWritten == <<"torn">>      \* a file in the middle of its first write
File(data, synced, maker) == [data |-> data, synced |-> synced, maker |-> maker]
NoCall == [pc |-> "idle", op |-> "none", path |-> "none", text |-> <<>>, inode |-> 0]

FilesInit ==
    /\ inodes = [i \in 1 .. Cardinality(Paths) |-> File(<<Old>>, TRUE, "user")]
    /\ names \in {f \in [Paths -> DOMAIN inodes] : \A p, q \in Paths : f[p] = f[q] => p = q}
    /\ durable = names /\ temporary = {} /\ outage = FALSE /\ fileFaults = 0
    /\ toolCall = [c \in Calls |-> NoCall]

Over(c) == toolCall' = [toolCall EXCEPT ![c] = NoCall]
Proceed(c, pc) == toolCall' = [toolCall EXCEPT ![c].pc = pc]
Fault == fileFaults < MaxFileFaults /\ fileFaults' = fileFaults + 1

StartCall(c) ==
    /\ toolCall[c].pc = "idle"
    /\ \E op \in {"read", "write", "edit", "search"}, p \in Paths :
         toolCall' = [toolCall EXCEPT ![c] = [NoCall EXCEPT !.op = op, !.path = p, !.text = <<New>>,
                      !.pc = IF op = "write" THEN "create" ELSE "open"]]
    /\ UNCHANGED <<inodes, names, durable, temporary, outage, fileFaults>>

\* The descriptor, and for file.read the size it has now.
OpenFile(c) ==
    /\ toolCall[c].pc = "open"
    /\ LET i == names[toolCall[c].path]
       IN  IF toolCall[c].op = "read" /\ Len(inodes[i].data) > MaxReadBytes THEN Over(c)
           ELSE toolCall' = [toolCall EXCEPT ![c].pc = "read", ![c].inode = i]
    /\ UNCHANGED <<inodes, names, durable, temporary, outage, fileFaults>>

Occurrences(data) == Cardinality({i \in DOMAIN data : data[i] = Old})
Replaced(data) == [i \in DOMAIN data |-> IF data[i] = Old THEN New ELSE data[i]]

\* Mutant: a file that grew is not noticed.
FitsAnyway(c, bytes) == TRUE

\* One byte more than allowed is asked for, to see whether the file grew.
Asked(c, data) ==
    IF toolCall[c].op = "read" /\ Len(data) > MaxReadBytes THEN SubSeq(data, 1, MaxReadBytes + 1) ELSE data
Fits(c, bytes) == toolCall[c].op = "read" => Len(bytes) <= MaxReadBytes

\* To the end of the file. An edit goes on if its text occurs exactly once.
ReadFile(c) ==
    /\ toolCall[c].pc = "read"
    /\ LET data == inodes[toolCall[c].inode].data
           bytes == Asked(c, data)
       IN  IF toolCall[c].op = "edit"
           THEN IF Occurrences(data) = 1
                THEN toolCall' = [toolCall EXCEPT ![c].pc = "create", ![c].text = Replaced(data)]
                ELSE Over(c)
           ELSE IF Fits(c, bytes)
                THEN toolCall' = [toolCall EXCEPT ![c].pc = "answered", ![c].text = bytes]
                ELSE Over(c)
    /\ UNCHANGED <<inodes, names, durable, temporary, outage, fileFaults>>

Answered(c) ==
    /\ toolCall[c].pc = "answered" /\ Over(c)
    /\ UNCHANGED <<inodes, names, durable, temporary, outage, fileFaults>>

\* A temporary file of the call's own, in the parent directory.
CreateTemporary(c) ==
    /\ toolCall[c].pc = "create"
    /\ \/ /\ Len(inodes) < MaxInodes
          /\ inodes' = Append(inodes, File(HalfWritten, FALSE, toolCall[c].op))
          /\ temporary' = temporary \cup {Len(inodes) + 1}
          /\ toolCall' = [toolCall EXCEPT ![c].pc = "fill", ![c].inode = Len(inodes) + 1]
          /\ UNCHANGED fileFaults
       \/ Fault /\ Over(c) /\ UNCHANGED <<inodes, temporary>>
    /\ UNCHANGED <<names, durable, outage>>

\* file.write syncs what it wrote; atomic_write of file.edit does not, and
\* leaves the temporary file when the write fails.
Fill(c) ==
    /\ toolCall[c].pc = "fill"
    /\ \/ /\ inodes' = [inodes EXCEPT ![toolCall[c].inode].data = toolCall[c].text,
                                      ![toolCall[c].inode].synced = toolCall[c].op = "write"]
          /\ Proceed(c, "rename") /\ UNCHANGED fileFaults
       \/ /\ Fault /\ UNCHANGED inodes
          /\ IF toolCall[c].op = "write" THEN Proceed(c, "remove") ELSE Over(c)
    /\ UNCHANGED <<names, durable, temporary, outage>>

Rename(c) ==
    /\ toolCall[c].pc = "rename"
    /\ \/ /\ names' = [names EXCEPT ![toolCall[c].path] = toolCall[c].inode]
          /\ temporary' = temporary \ {toolCall[c].inode}
          /\ IF toolCall[c].op = "write" THEN Proceed(c, "sync") ELSE Over(c)
          /\ UNCHANGED fileFaults
       \/ Fault /\ Proceed(c, "remove") /\ UNCHANGED <<names, temporary>>
    /\ UNCHANGED <<inodes, durable, outage>>

\* The parent's sync makes every name in it durable. When it fails the call
\* fails, though the file is there.
SyncParent(c) ==
    /\ toolCall[c].pc = "sync"
    /\ \/ durable' = names /\ Over(c) /\ UNCHANGED fileFaults
       \/ Fault /\ Proceed(c, "remove") /\ UNCHANGED durable
    /\ UNCHANGED <<inodes, names, temporary, outage>>

RemoveTemporary(c) ==
    /\ toolCall[c].pc = "remove" /\ Over(c)
    /\ temporary' = temporary \ {toolCall[c].inode}
    /\ UNCHANGED <<inodes, names, durable, outage, fileFaults>>

\* A program writes to the end of a file.
Grow(p) ==
    /\ Len(inodes[names[p]].data) <= MaxReadBytes + 1 /\ inodes[names[p]].data # HalfWritten
    /\ inodes' = [inodes EXCEPT ![names[p]].data = Append(@, Old)]
    /\ UNCHANGED <<names, durable, temporary, toolCall, outage, fileFaults>>

\* What was not synced may be lost: a file's bytes, and what it was renamed to.
\* The model ends there.
Outage ==
    /\ outage' = TRUE
    /\ toolCall' = [c \in Calls |-> NoCall]
    /\ \E lost \in SUBSET {i \in DOMAIN inodes : ~inodes[i].synced} :
         inodes' = [i \in DOMAIN inodes |->
                       IF i \in lost THEN [inodes[i] EXCEPT !.data = HalfWritten] ELSE inodes[i]]
    /\ \E back \in SUBSET {p \in Paths : names[p] # durable[p]} :
         names' = [p \in Paths |-> IF p \in back THEN durable[p] ELSE names[p]]
    /\ durable' = names' /\ UNCHANGED <<temporary, fileFaults>>

FilesNext ==
    /\ ~outage
    /\ \/ \E c \in Calls :
            \/ StartCall(c) \/ OpenFile(c) \/ ReadFile(c) \/ Answered(c) \/ CreateTemporary(c)
            \/ Fill(c) \/ Rename(c) \/ SyncParent(c) \/ RemoveTemporary(c)
       \/ \E p \in Paths : Grow(p)
       \/ Outage

FilesSpec == FilesInit /\ [][FilesNext]_filesVars

-----------------------------------------------------------------------------
Litter == temporary \ {toolCall[c].inode : c \in Calls}

(* A path never names a file that is not whole, while the power is on, and *)
(* after an outage only if an edit made it, which syncs nothing. What a    *)
(* read answers is a whole file, though files grow and are replaced while  *)
(* it reads. A write leaves no temporary file but in an outage.            *)
WholeVersions ==
    /\ [](\A p \in Paths :
            inodes[names[p]].data = HalfWritten => outage /\ inodes[names[p]].maker = "edit")
    /\ []((\E i \in Litter : inodes[i].maker = "write") => outage)
    /\ [][\A c \in Calls :
            toolCall[c].pc = "read" /\ toolCall'[c].pc = "answered" =>
                toolCall'[c].text = inodes[toolCall[c].inode].data]_filesVars
=============================================================================
