-------------------------------- MODULE Elf --------------------------------
(***************************************************************************)
(* The executables of src/user/elf.rs: building the image of a program and *)
(* parsing whatever a file holds.                                          *)
(*                                                                         *)
(* A file is a sequence of units.  The 64 bytes of an ELF header, the 56   *)
(* of a program header, the code of a program and a word of text are one   *)
(* unit each, so that offsets and lengths count units.  The fields of a    *)
(* header are usize, which holds less than Word; the kernel's build checks *)
(* for overflow, so an unchecked sum that reaches Word is a panic.         *)
(***************************************************************************)
EXTENDS Naturals, Sequences, FiniteSetsExt

CONSTANTS
  ProgramId,   \* the names of ProgramId::ALL
  Word         \* 2^64, scaled down: what a usize can hold

ASSUME WordAssumption == Word \in Nat /\ Word > 2

Header(entry, phoff, phnum) ==
  [unit |-> "header", valid |-> TRUE, entry |-> entry, phoff |-> phoff, phnum |-> phnum]
Segment(type, vaddr, offset, filesz, memsz) ==
  [unit |-> "segment", type |-> type, vaddr |-> vaddr, offset |-> offset,
   filesz |-> filesz, memsz |-> memsz]
Code(program) == [unit |-> "code", program |-> program]

\* The units of an executable; the fields are usize, and "note" stands for
\* every type but PT_LOAD.
Binary ==
  LET usize == 0..(Word - 1)
  IN  [unit : {"header"}, valid : BOOLEAN, entry : STRING, phoff : usize, phnum : usize]
      \cup [unit : {"segment"}, type : {"load", "note"}, vaddr : STRING, offset : usize,
            filesz : usize, memsz : usize]
      \cup [unit : {"code"}, program : STRING]

\* The entry address of a program stands for the program; from_entry finds
\* it again.
build_program_image(program) ==
  << Header(program, 1, 1), Segment("load", program, 2, 1, 1), Code(program) >>

Failed(err) == [res |-> err]

\* Program headers that come before the first PT_LOAD are skipped.  What is
\* no program header has another type than PT_LOAD.
Loadable(image, offset) ==
  offset < Len(image) /\ image[offset + 1].unit = "segment" /\ image[offset + 1].type = "load"

\* Mutant of segment: the sum wraps, as an unchecked one does.
segmentWrapping(image, s) ==
  IF (s.offset + s.filesz) % Word > Len(image) THEN Failed("Truncated")
  ELSE IF s.memsz < s.filesz THEN Failed("Unsupported")
  ELSE [res |-> "Ok", program |-> image[1].entry, load |-> s]

\* The checks on the PT_LOAD header; checked_add refuses a sum that wraps.
segment(image, s) ==
  IF s.offset + s.filesz >= Word \/ s.offset + s.filesz > Len(image) THEN Failed("Truncated")
  ELSE IF s.memsz < s.filesz THEN Failed("Unsupported")
  ELSE [res |-> "Ok", program |-> image[1].entry, load |-> s]

parse(image) ==
  LET h == image[1]
      \* the headers parse looks at before it is done
      stops == {at \in h.phoff..(h.phoff + h.phnum - 1) :
                  at >= Len(image) \/ Loadable(image, at)}
      first == Min(stops)
  IN  IF image = <<>> THEN Failed("TooSmall")
      ELSE IF h.unit # "header" THEN Failed("BadMagic")
      ELSE IF ~h.valid \/ h.phnum = 0 THEN Failed("Unsupported")
      ELSE IF h.entry \notin ProgramId THEN Failed("UnknownProgram")
      ELSE IF stops = {} THEN Failed("MissingLoadSegment")
      ELSE IF first + 1 >= Word THEN Failed("Panic")
      ELSE IF first >= Len(image) THEN Failed("Truncated")
      ELSE segment(image, image[first + 1])
=============================================================================
