CONSTANT Setups <- Sound
SPECIFICATION Spec
INVARIANTS
  
  LayoutExact

  
