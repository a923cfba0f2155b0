--------------------------------- MODULE Mmu ---------------------------------
(***************************************************************************)
(* The page table of src/mem/mmu.c (ARM).  It has one word per section of  *)
(* 1 MB: an address is abstracted to its section number, bits 31 to 20,    *)
(* and the table to the runs of sections that were written to it, in       *)
(* order.  Access rights are the same for all sections.                    *)
(***************************************************************************)
EXTENDS Integers, Sequences

VARIABLES table,  \* the runs: virtual and physical start, and length
          mmu     \* translation is on

mmuVars == <<table, mmu>>

Section == 0 .. 4095
NoPage == -1

L1_PTR_BASE_ADDR     == \h307
PHYSICAL_MEM_ADDR    == \h300
VIRTUAL_MEM_ADDR     == \h300
MEM_MAP_SIZE         == \h8
PHYSICAL_IO_ADDR     == \h480
VIRTUAL_IO_ADDR      == \hC80
IO_MAP_SIZE          == \h180
VIRTUAL_VECTOR_ADDR  == 0
PHYSICAL_VECTOR_ADDR == \h300

Run == Section \X Section \X Section

MmuTypeOK == table \in Seq(Run) /\ mmu \in BOOLEAN

MmuInit == table = << >> /\ mmu = FALSE

\* Mutant: the vectors are not mapped.
SystemMap_NoVectors ==
    << <<VIRTUAL_MEM_ADDR, PHYSICAL_MEM_ADDR, MEM_MAP_SIZE>>,
       <<VIRTUAL_IO_ADDR, PHYSICAL_IO_ADDR, IO_MAP_SIZE>> >>

\* The three loops of init_sys_mmu.
SystemMap ==
    << <<VIRTUAL_VECTOR_ADDR, PHYSICAL_VECTOR_ADDR, MEM_MAP_SIZE>>,
       <<VIRTUAL_MEM_ADDR, PHYSICAL_MEM_ADDR, MEM_MAP_SIZE>>,
       <<VIRTUAL_IO_ADDR, PHYSICAL_IO_ADDR, IO_MAP_SIZE>> >>

init_sys_mmu == table' = SystemMap /\ UNCHANGED mmu
start_mmu == mmu' = TRUE /\ UNCHANGED table

\* The runs that hold section v, and where an access to v goes: through the
\* word written last, or nowhere if there is none.
RunsOf(v) == {i \in 1 .. Len(table) : v \in table[i][1] .. table[i][1] + table[i][3] - 1}

Translate(v) ==
    IF ~mmu THEN v
    ELSE IF RunsOf(v) = {} THEN NoPage
    ELSE LET run == table[CHOOSE i \in RunsOf(v) : \A j \in RunsOf(v) : j <= i]
         IN  run[2] + (v - run[1])
=============================================================================
