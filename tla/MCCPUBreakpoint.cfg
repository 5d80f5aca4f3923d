CONSTANTS
  Hosts = {h1, h2}
  None = None
SPECIFICATION FairSpec
PROPERTIES PowerDownSticksPermanently
