\* alg_vt_enable is off.
CONSTANTS
  Configs <- NoVtConfig
  FreshPre = {FALSE}
SPECIFICATION Spec
INVARIANTS
  AssertionsHold
