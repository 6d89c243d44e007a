--------------------------- MODULE MCProcessMemory ---------------------------
(****************************************************************************)
(* ProcessMemory with programs of one and two pages: two program headers in *)
(* a page of each, in the same page, and a section outside of both.         *)
(****************************************************************************)
EXTENDS ProcessMemory

MCKernelCode == {1, 2}

MCProgram(size, headers, sections) ==
  [size |-> size, headers |-> headers, sections |-> sections]

MCPrograms ==
  {MCProgram(1, << 400 >>, << 400, 400 >>),
   MCProgram(2, << 400, 401 >>, << 400, 401, 401 >>),
   MCProgram(1, << 401, 400, 401 >>, << 400, 401 >>),
   MCProgram(1, << 400, 401 >>, << 400, 402, 401 >>)}
=============================================================================
