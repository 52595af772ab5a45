\* Keys whose paths ascend while their methods descend.
SPECIFICATION Spec
CONSTANT Keys <- CrossedKeys
INVARIANT FindsWhatIsConnected
