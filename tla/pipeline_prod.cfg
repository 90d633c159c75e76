SPECIFICATION Spec
CONSTANTS
  Jobs = {j1}
  Kinds = {"deploy_prod"}
  Configs = {v1, v2}
  None = None
SYMMETRY Symmetry
INVARIANT ProdDeployCompletes
