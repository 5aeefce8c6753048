---------------------------- MODULE FlashStorage ----------------------------
(***************************************************************************)
(* The signal engine together with its patch in flash: what a save keeps   *)
(* of the engine, what a boot makes of it, and resets at any time          *)
(* (firmware/flash_storage.cpp, Firmware::init, recompile_all_outputs).    *)
(*                                                                         *)
(* A save and a boot run to completion between two forms.  A reset in the  *)
(* middle of a form or of a boot is a reset before or after it: the engine *)
(* is in RAM, and the file system changes a file as a whole when it is     *)
(* closed, or else leaves one that the header, the size or the checksum    *)
(* give away.  Checksums of damaged files are taken not to match.          *)
(* A text is taken to be read back as it was written, which a text that is *)
(* a lone number need not be (module Reader, TextsAreKept).                *)
(***************************************************************************)
EXTENDS SignalEngine

CONSTANTS
  Rounded,  \* Rounded[v]: the vector v printed with %.6g and read again
  NoFile,   \* there is no /state.bin
  Damaged   \* the file is too short, or its checksum does not match

ASSUME RoundedAssumption == Rounded \in [Value -> Value]

VARIABLE file  \* /state.bin

flashVars == <<vars, file>>

(* The cells that were ever bound and the sources of the outputs.  Which   *)
(* outputs ran their source when it was saved is history: it is not in the *)
(* file.                                                                   *)
Patch == [cells : [Cell -> Binding], source : [Output -> Text \cup {NoText}],
          running : SUBSET Output]

ASSUME FileAssumption == NoFile \notin Patch /\ Damaged \notin Patch /\ NoFile # Damaged

-----------------------------------------------------------------------------
Blank == [kind |-> "Empty", val |-> Zero, text |-> NoText, params |-> 0]

RestoredAsNumber(b) ==   \* mutant: the source of a callable is not restored
  CASE b.kind = "Empty" -> Blank
    [] b.kind = "Data" -> [Blank EXCEPT !.kind = "Data", !.val = Rounded[b.val]]
    [] OTHER -> [Blank EXCEPT !.kind = "Number", !.val = b.val]

(* What is read back for a cell that was bound to b: serialize writes the  *)
(* kind, the number, and the source of a callable, or the elements of a    *)
(* vector; the parameters of a function are not written.                   *)
Restored(b) ==
  CASE b.kind = "Empty" -> Blank
    [] b.kind = "Number" -> [Blank EXCEPT !.kind = "Number", !.val = b.val]
    [] b.kind = "Data" -> [Blank EXCEPT !.kind = "Data", !.val = Rounded[b.val]]
    [] OTHER -> [b EXCEPT !.params = 0]

(* The output runs what its source compiles to.                            *)
IsCurrent(o) == RunsItsSource(o) /\ root[o] = GraphOf(source[o], cells)

(* save, all the way.  A patch that does not fit the buffer, or a file     *)
(* that does not open, changes nothing.                                    *)
Save ==
  /\ file' = [cells |-> cells, source |-> source,
              running |-> {o \in Output : IsCurrent(o)}]
  /\ UNCHANGED vars

(* save, cut short by a full file system or a reset.                       *)
SaveFails == /\ file' = Damaged
             /\ UNCHANGED vars

Erase == /\ file' = NoFile
         /\ UNCHANGED vars

(* recompile_all_outputs over the cells cs and the sources src: nothing    *)
(* runs before it.                                                         *)
RecompileAll(cs, src) ==
  LET built == {o \in Output : Compiles(src[o], cs)}
  IN /\ \E lost \in SUBSET (IF PoolMayFill THEN built ELSE {}) :
          root' = [o \in Output |-> IF o \in built \ lost THEN GraphOf(src[o], cs)
                                                          ELSE NoGraph]
     /\ valid' = [o \in Output |-> o \in built]
     /\ deps' \in {d \in [Output -> SUBSET Cell] :
                     \A o \in Output : IF o \in built THEN d[o] \in Recorded(Reach(src[o], cs))
                                                      ELSE d[o] = {}}

BootWith(cs, src) ==
  /\ cells' = cs
  /\ source' = src
  /\ RecompileAll(cs, src)
  /\ lkg' = [o \in Output |-> Neutral]
  /\ out' = [o \in Output |-> Neutral]
  /\ playing' = TRUE
  /\ UNCHANGED file

(* The power comes back, or the watchdog bites: Firmware::init.  There is  *)
(* room in the empty arena for every text that was in the full one.        *)
Boot ==
  IF file \in {NoFile, Damaged}
  THEN BootWith([c \in Cell |-> Blank], [o \in Output |-> NoText])
  ELSE BootWith([c \in Cell |-> Restored(file.cells[c])], file.source)

-----------------------------------------------------------------------------
FlashInit == Init /\ file \in {NoFile, Damaged}

FlashNext == \/ Next /\ UNCHANGED file
             \/ Save \/ SaveFails \/ Erase \/ Boot

FlashSpec == FlashInit /\ [][FlashNext]_flashVars

-----------------------------------------------------------------------------
FlashTypeOK == TypeOK /\ file \in Patch \cup {NoFile, Damaged}

(* An output comes back unchanged when it reaches no function and no       *)
(* vector that loses digits.                                               *)
Keeps(b) == /\ b.kind = "Callable" => b.params = 0
            /\ b.kind = "Data" => Rounded[b.val] = b.val

Survives(p, o) == o \in p.running /\ \A c \in Reach(p.source[o], p.cells) : Keeps(p.cells[c])

(* A boot from a patch brings back the programs that ran when it was       *)
(* saved: an output that ran its source then, and reaches nothing that the *)
(* file cannot hold, runs the same graph again, compiled from the restored *)
(* cells in an engine that has forgotten everything else.  With the node   *)
(* pool full it may have no graph, but never another one.                  *)
PatchComesBack ==
  [][\A p \in {file} \ {NoFile, Damaged} :
       Boot => \A o \in Output : Survives(p, o) => root'[o] \in Built(p.source[o], p.cells)]_flashVars

=============================================================================
