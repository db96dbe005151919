CONSTANTS
  Incs = {dx}
  Sts = {x}
  Modulus = 3
  Ranks = {2, 3}
  Throws = FALSE
SPECIFICATION Spec
INVARIANT StateHaloIsCurrent
