------------------------------ MODULE MCKernel ------------------------------
(***************************************************************************)
(* Small instances of the kernel's objects.  A behaviour is one of exactly *)
(* one component, named by `part'; the variables of the others stay as     *)
(* they are at the beginning.  The components share no variable.           *)
(***************************************************************************)
EXTENDS Fifo, Inodes, Descriptors, FileOps, MemoryFile, Listing, Interrupts

VARIABLE part

In(p) == part = p

-----------------------------------------------------------------------------
(* Values for the constants.                                               *)
Name(absolute, names) == [absolute |-> absolute, names |-> names]
UsedPaths == {Name(TRUE, <<"d">>), Name(TRUE, <<"d", "a">>), Name(TRUE, <<"b">>),
              Name(TRUE, <<"m", "b">>), Name(FALSE, <<"..">>)}
FirstProcess == CHOOSE p \in FdProcess : TRUE
AnyGroup == CHOOSE g \in OpsGroups : TRUE

-----------------------------------------------------------------------------
KernelInit ==
    /\ part \in {"fifo", "inodes", "descriptors", "memory file", "listing",
                 "interrupts", "calls"}
    /\ Init /\ InodesInit /\ InterruptsInit
    /\ DescriptorsInit /\ (~In("descriptors") => fdAlive[FirstProcess] = "running")
    /\ FileOpsInit /\ (~In("calls") => group = AnyGroup)
    /\ MemoryFileInit /\ (~In("memory file") => bufOwner = "tmpfs")
    /\ ListingInit /\ (~In("listing") => lister.prog = "ls")

kernelVars == <<part, vars, inodeVars, descVars, fileVars, listingVars,
                interruptVars, fileOpsVars>>

(* The other parts use up their bounds, or panic; pipes and interrupts go  *)
(* on for ever.                                                            *)
Finished == part \notin {"fifo", "interrupts"} /\ UNCHANGED kernelVars

KernelNext ==
    /\ UNCHANGED part
    /\ \/ In("fifo") /\ Next
             /\ UNCHANGED <<inodeVars, descVars, fileVars, listingVars,
                           interruptVars, fileOpsVars>>
       \/ In("inodes") /\ InodesNext
             /\ UNCHANGED <<vars, descVars, fileVars, listingVars,
                           interruptVars, fileOpsVars>>
       \/ In("descriptors") /\ DescriptorsNext
             /\ UNCHANGED <<vars, inodeVars, fileVars, listingVars,
                           interruptVars, fileOpsVars>>
       \/ In("memory file") /\ MemoryFileNext
             /\ UNCHANGED <<vars, inodeVars, descVars, listingVars,
                           interruptVars, fileOpsVars>>
       \/ In("listing") /\ ListingNext
             /\ UNCHANGED <<vars, inodeVars, descVars, fileVars, interruptVars, fileOpsVars>>
       \/ In("interrupts") /\ InterruptsNext
             /\ UNCHANGED <<vars, inodeVars, descVars, fileVars,
                           listingVars, fileOpsVars>>
       \/ In("calls") /\ FileOpsNext
             /\ UNCHANGED <<vars, inodeVars, descVars, fileVars,
                           listingVars, interruptVars>>
       \/ Finished

KernelSpec == KernelInit /\ [][KernelNext]_kernelVars

(* Nothing orders the processes that use the tree; two users of the pipe   *)
(* have their names, and are reduced with them.                            *)
KernelSymmetry == Permutations(InodeProcess)

-----------------------------------------------------------------------------
(* Processes that share a description do not overwrite each other's        *)
(* appends, and a mapping stays with the file while its buffer moves       *)
(* (tmpfs.c:160, growable_buf.c:33).  The calls on a pipe never run off    *)
(* its ring buffer (ring_buf.c:58, :75).  A file is used only by who was   *)
(* given the right to, and a text of procfs is that of one moment          *)
(* (fs.c:217, procfs.c:48).                                                *)
OpenFilesAreSound ==
    /\ In("fifo") => TypeOK /\ NoOverrun
    /\ In("descriptors") => DescriptorsTypeOK
    /\ In("calls") => AccessIsGranted /\ ItemsAreSnapshots /\ NumbersAreFresh
    /\ In("memory file") => MemoryFileTypeOK /\ MappingStaysCoherent /\ SharedWritesAppend
=============================================================================
